---- MODULE Spec2Model ----
(***************************************************************************)
(* A model of the fyn-runner agent: the outbound MessageQueue and the      *)
(* ServerProxy sender with its response futures, the websocket dispatch    *)
(* of the ServerProxy, the ActiveJobTracker, the Job executor and the      *)
(* JobManager tick loop.  Every component has its own specification        *)
(* (SpecQueue, SpecSend, SpecWs, SpecTracker, SpecJob, SpecManager) over   *)
(* the shared variables; a specification leaves the variables of the other *)
(* components unchanged.                                                   *)
(***************************************************************************)
EXTENDS Integers, Sequences, FiniteSets, TLC

VARIABLES
    \* ---- MessageQueue (server/message_queue.py)
    queue,              \* MessageQueue._queue: the list of resident messages
    q_op,               \* history: the last queue call ("none", "push", "pop")
    q_ret,              \* history: what the last get_next_message returned
    q_pre,              \* history: _queue as it was before the last call
    drained,            \* history: priorities returned since the last push
    next_msg_id,        \* the next fresh message id
    popped,             \* history: the ids get_next_message has returned, in order
    \* ---- ActiveJobTracker (job_manager/job_activity_tracking.py)
    job_status,         \* the status field of every live job record (object)
    active_jobs,        \* ActiveJobTracker._active_jobs: job id -> job record
    completed_jobs,     \* ActiveJobTracker._completed_jobs: job id -> job record
    ever_added,         \* history: the ids add_job has stored
    t_call,             \* history: the last tracker call and how it ended
    \* ---- Job (job_manager/job.py) and the server's view of the jobs
    job_pc,             \* where each job worker stands in Job.launch()
    job_fm,             \* Job.file_manager: what the executor was constructed with
    job_result,         \* Job._job_result.returncode (NoExit: no result yet)
    job_failed,         \* history: the step of launch() that raised, or "none"
    applied,            \* history: the _update_status calls of each executor and how
                        \* each went
    server_log,         \* the status PATCHes the server received, per job, in order
    server_exit,        \* the exit_code the server holds per job
    \* ---- JobManager (job_manager/job_manager.py)
    pending_queue,      \* JobManager._pending_queue: the heap list of (priority, job)
    unfinished_tasks,   \* PriorityQueue.unfinished_tasks of the pending queue
    observer_threads,   \* JobManager._observer_threads: the ids in the worker table
    job_priority,       \* the priority field of every job record
    mgr_pc,             \* where the tick loop stands: "tick", "get" or "exit"
    loop_count,         \* main()'s loop_count
    is_running,         \* JobManager._is_running
    no_active_jobs,     \* main()'s no_active_jobs, as last read
    last_launch,        \* history: what the last pass through the launch branch did
    \* ---- ServerProxy, outbound (server/server_proxy.py)
    running,            \* ServerProxy.running
    new_send_message,   \* ServerProxy._new_send_message: the event, set or not
    pushing,            \* the ids whose push_message call has queued the message
                        \* and has not yet set the event
    response_futures,   \* ServerProxy._response_futures: the ids holding a future
    futures,            \* the Future made for each message id, or none
    send_pc,            \* where _send_handler stands
    sent,               \* history: how _send_message ended for each message id
    heartbeat,          \* _send_handler's status reports: whether next_report_time is
                        \* reached, how the last two attempts ended, the parity of
                        \* the number of attempts
    \* ---- ServerProxy, inbound (server/server_proxy.py)
    observers,          \* ServerProxy._observers: message type -> callback
    reg_log,            \* history: the registry calls made, each with the registry before it
    ws_connected,       \* ServerProxy._ws_connected
    ws_open,            \* whether the connection of ServerProxy._ws can carry a send
    recv_pc,            \* where _receive_handler stands
    recv_slept,         \* history: _receive_handler has been through its 5 s sleep
    ws_callback,        \* _handle_ws_message's local callback, between the lookup
                        \* in the registry and the call, with the frame's type
    ws_frames,          \* history: the frames _handle_ws_message has handled
    ws_sent             \* history: the reply frames sent, each with the frame it answers

qvars == <<queue, q_op, q_ret, q_pre, drained, next_msg_id, popped>>
tvars == <<job_status, active_jobs, completed_jobs, ever_added, t_call>>

jvars == <<job_pc, job_fm, job_result, job_failed, applied, server_log, server_exit>>

mvars == <<pending_queue, unfinished_tasks, observer_threads, job_priority, mgr_pc,
           loop_count, is_running, no_active_jobs, last_launch>>

svars == <<running, new_send_message, pushing, response_futures, futures, send_pc, sent,
           heartbeat>>

wvars == <<observers, reg_log, ws_connected, ws_open, recv_pc, recv_slept, ws_callback,
           ws_frames, ws_sent>>

vars == <<qvars, tvars, jvars, mvars, svars, wvars>>

(***************************************************************************)
(* Bounds of the model.                                                    *)
(***************************************************************************)
MaxMsgs == 4
MaxPriority == 3
MaxTrackIds == 1
NumLaunched == 1
NumJobs == 2
MaxJobPriority == 2
MaxConcurrentJobs == 1
MaxMainLoopCount == 3
MaxSendMsgs == 2
MaxFrames == 2
MaxRegCalls == 3

Priorities == 1..MaxPriority

(***************************************************************************)
(* MessageQueue                                                            *)
(***************************************************************************)

\* A Message as the queue sees it: an id and a priority.
Message(id, p) == [msg_id |-> id, priority |-> p]

\* What get_next_message returns on an empty queue (Python's None).
NoMessage == Message(0, 0)

\* list.insert for one step of a stable sort: m goes behind every element
\* whose key is not larger than its own.
InsertByPriority(sorted, m) ==
    LET k == Cardinality({i \in 1..Len(sorted) : sorted[i].priority <= m.priority})
    IN  SubSeq(sorted, 1, k) \o <<m>> \o SubSeq(sorted, k + 1, Len(sorted))

RECURSIVE StableSort(_)
StableSort(s) ==
    IF s = <<>> THEN <<>>
    ELSE InsertByPriority(StableSort(SubSeq(s, 1, Len(s) - 1)), s[Len(s)])

\* A push that forgets to sort.
SortByPriority_unsorted(s) == s

\* self._queue.sort(key=lambda x: x.priority): ascending and stable.
SortByPriority(s) == StableSort(s)

\* MessageQueue.push_message: append, then sort.
push_message(q, m) == SortByPriority(Append(q, m))

\* MessageQueue.is_empty
is_empty(q) == Len(q) = 0

\* A pop that leaves the message in the list.
get_next_message_peek(q) ==
    IF Len(q) = 0 THEN [ret |-> NoMessage, queue |-> q]
    ELSE [ret |-> q[Len(q)], queue |-> q]

\* A pop that hands out a message from an empty list.
get_next_message_phantom(q) ==
    IF Len(q) = 0 THEN [ret |-> Message(1, 1), queue |-> q]
    ELSE [ret |-> q[Len(q)], queue |-> SubSeq(q, 1, Len(q) - 1)]

\* A pop from the front of the list.
get_next_message_front(q) ==
    IF Len(q) = 0 THEN [ret |-> NoMessage, queue |-> q]
    ELSE [ret |-> q[1], queue |-> SubSeq(q, 2, Len(q))]

\* MessageQueue.get_next_message: None on an empty queue, else list.pop(-1).
get_next_message(q) ==
    IF Len(q) = 0 THEN [ret |-> NoMessage, queue |-> q]
    ELSE [ret |-> q[Len(q)], queue |-> SubSeq(q, 1, Len(q) - 1)]

InitQueue ==
    /\ queue = <<>>
    /\ q_op = "none"
    /\ q_ret = NoMessage
    /\ q_pre = <<>>
    /\ drained = <<>>
    /\ next_msg_id = 1
    /\ popped = <<>>

\* A caller pushes a fresh message of any priority.
QPush ==
    /\ next_msg_id <= MaxMsgs
    /\ \E p \in Priorities :
         queue' = push_message(queue, Message(next_msg_id, p))
    /\ next_msg_id' = next_msg_id + 1
    /\ q_op' = "push"
    /\ q_pre' = queue
    /\ drained' = <<>>
    /\ UNCHANGED <<q_ret, popped>>

\* A caller takes the next message.
QPop ==
    /\ LET r == get_next_message(queue)
       IN  /\ queue' = r.queue
           /\ q_ret' = r.ret
           /\ drained' = IF r.ret = NoMessage THEN drained
                         ELSE Append(drained, r.ret.priority)
           /\ popped' = IF r.ret = NoMessage THEN popped
                        ELSE Append(popped, r.ret.msg_id)
    /\ q_op' = "pop"
    /\ q_pre' = queue
    /\ UNCHANGED next_msg_id

(***************************************************************************)
(* Job status and activity phase                                           *)
(***************************************************************************)

\* StatusEnum of the API client, by member name.
PendingStatuses == {"QD"}
ActiveStatuses == {"PR", "FR", "RN", "PD", "CU", "UR"}
CompleteStatuses == {"SD", "FD", "FS", "FM", "FO", "FE"}
Statuses == PendingStatuses \cup ActiveStatuses \cup CompleteStatuses

\* job_status_to_activity_status: the phase of a status.
job_status_to_activity_status(status) ==
    CASE status = "QD" -> "PENDING"
      [] status = "PR" -> "ACTIVE"
      [] status = "FR" -> "ACTIVE"
      [] status = "RN" -> "ACTIVE"
      [] status = "PD" -> "ACTIVE"
      [] status = "CU" -> "ACTIVE"
      [] status = "UR" -> "ACTIVE"
      [] status = "SD" -> "COMPLETE"
      [] status = "FD" -> "COMPLETE"
      [] status = "FS" -> "COMPLETE"
      [] status = "FM" -> "COMPLETE"
      [] status = "FO" -> "COMPLETE"
      [] status = "FE" -> "COMPLETE"
      [] OTHER -> "ValueError"

(***************************************************************************)
(* ActiveJobTracker.  A job record is a Python object: the tracker's maps  *)
(* hold references to it, and job_status holds its status field.  Two      *)
(* records may carry the same job id.  A tracker state is the record       *)
(* [active, completed, status]; a call returns the state it leaves and     *)
(* whether it raised.                                                      *)
(***************************************************************************)
JobRecord(id, obj) == [id |-> id, obj |-> obj]

\* The record the server's job list holds for a job id.
JobRec(id) == JobRecord(id, "a")

Tracker == [active |-> active_jobs, completed |-> completed_jobs, status |-> job_status]

\* dict[key] = value
DictPut(d, k, v) == (k :> v) @@ d

\* del dict[key] / dict.pop(key)
DictDel(d, k) == [x \in (DOMAIN d) \ {k} |-> d[x]]

EmptyDict == <<>>

\* ActiveJobTracker.is_active / is_completed / is_tracked
is_active(T, id) == id \in DOMAIN T.active
is_completed(T, id) == id \in DOMAIN T.completed
is_tracked(T, id) == is_active(T, id) \/ is_completed(T, id)

\* ActiveJobTracker.get_job_count()['active']
active_count(T) == Cardinality(DOMAIN T.active)

\* An add_job that files the job before it rejects it.
add_job_store_first(T, r) ==
    [T EXCEPT !.active = DictPut(T.active, r.id, r)]
        @@ [raised |-> job_status_to_activity_status(T.status[r]) = "PENDING"]

\* ActiveJobTracker.add_job
add_job(T, r) ==
    LET phase == job_status_to_activity_status(T.status[r])
    IN  CASE phase = "PENDING" -> T @@ [raised |-> TRUE]
          [] phase = "ACTIVE" ->
               [T EXCEPT !.active = DictPut(T.active, r.id, r)] @@ [raised |-> FALSE]
          [] phase = "COMPLETE" ->
               [T EXCEPT !.completed = DictPut(T.completed, r.id, r)] @@ [raised |-> FALSE]
          [] OTHER -> T @@ [raised |-> TRUE]

\* ActiveJobTracker.update_job_status
update_job_status(T, id, new_status) ==
    LET act == is_active(T, id)
        com == is_completed(T, id)
        new_activity_state == job_status_to_activity_status(new_status)
    IN  IF act /\ com THEN T @@ [raised |-> TRUE]
        ELSE IF ~act /\ ~com THEN T @@ [raised |-> TRUE]
        ELSE IF new_activity_state = "ValueError" THEN T @@ [raised |-> TRUE]
        ELSE IF new_activity_state = "ACTIVE" /\ com THEN
            LET job == T.completed[id]
            IN  [active |-> DictPut(T.active, id, job),
                 completed |-> DictDel(T.completed, id),
                 status |-> [T.status EXCEPT ![job] = new_status],
                 raised |-> FALSE]
        ELSE IF new_activity_state = "COMPLETE" /\ act THEN
            LET job == T.active[id]
            IN  [active |-> DictDel(T.active, id),
                 completed |-> DictPut(T.completed, id, job),
                 status |-> [T.status EXCEPT ![job] = new_status],
                 raised |-> FALSE]
        ELSE IF act /\ new_activity_state = "ACTIVE" THEN
            [T EXCEPT !.status[T.active[id]] = new_status] @@ [raised |-> FALSE]
        ELSE IF com /\ new_activity_state = "COMPLETE" THEN
            [T EXCEPT !.status[T.completed[id]] = new_status] @@ [raised |-> FALSE]
        ELSE T @@ [raised |-> FALSE]

\* ActiveJobTracker.remove_job; removed is its return value.
remove_job(T, id) ==
    [active |-> IF id \in DOMAIN T.active THEN DictDel(T.active, id) ELSE T.active,
     completed |-> IF id \in DOMAIN T.completed THEN DictDel(T.completed, id)
                   ELSE T.completed,
     status |-> T.status,
     raised |-> FALSE,
     removed |-> id \in DOMAIN T.active \/ id \in DOMAIN T.completed]

\* The records some map still refers to; an unreferenced record is garbage.
Referenced(T) ==
    {T.active[i] : i \in DOMAIN T.active} \cup {T.completed[i] : i \in DOMAIN T.completed}

Collect(T, status) == [r \in Referenced(T) |-> status[r]]

InitTracker ==
    /\ job_status = EmptyDict
    /\ active_jobs = EmptyDict
    /\ completed_jobs = EmptyDict
    /\ ever_added = {}
    /\ t_call = [op |-> "none", id |-> 0, status |-> "QD", raised |-> FALSE]

\* The ids, records and statuses the tracker's callers pass in.
TrackIds == 1..MaxTrackIds
TrackRecords == {JobRecord(i, o) : i \in TrackIds, o \in {"a", "b"}}
TrackStatuses == {"QD", "PR", "RN", "SD", "FE"}

\* A caller adds a job record: a record the tracker already holds, or a
\* fresh one with any status.
TAdd(r, s) ==
    /\ r \in DOMAIN job_status => s = job_status[r]
    /\ LET T0 == [Tracker EXCEPT !.status = (r :> s) @@ job_status]
           T1 == add_job(T0, r)
       IN  /\ active_jobs' = T1.active
           /\ completed_jobs' = T1.completed
           /\ job_status' = Collect(T1, T1.status)
           /\ ever_added' = IF T1.raised THEN ever_added ELSE ever_added \cup {r.id}
           /\ t_call' = [op |-> "add", id |-> r.id, status |-> s, raised |-> T1.raised]

\* A caller updates the status of a job id.
TUpdate(id, s) ==
    LET T1 == update_job_status(Tracker, id, s)
    IN  /\ active_jobs' = T1.active
        /\ completed_jobs' = T1.completed
        /\ job_status' = Collect(T1, T1.status)
        /\ t_call' = [op |-> "update", id |-> id, status |-> s, raised |-> T1.raised]
        /\ UNCHANGED ever_added

\* A caller removes a job id.
TRemove(id) ==
    LET T1 == remove_job(Tracker, id)
    IN  /\ active_jobs' = T1.active
        /\ completed_jobs' = T1.completed
        /\ job_status' = Collect(T1, T1.status)
        /\ t_call' = [op |-> "remove", id |-> id, status |-> "QD", raised |-> FALSE]
        /\ UNCHANGED ever_added

NextQueue ==
    \/ QPush /\ UNCHANGED <<tvars, jvars, mvars, svars, wvars>>
    \/ QPop /\ UNCHANGED <<tvars, jvars, mvars, svars, wvars>>

(***************************************************************************)
(* Job: the executor of one job, run by its own worker thread.             *)
(***************************************************************************)
\* The job ids of a run: the domain of the per-job variables.
JobIds == DOMAIN job_pc
\* The jobs of the specification that calls launch() directly.
LaunchedIds == 1..NumLaunched

\* subprocess return codes; NoExit stands for "no CompletedProcess yet".
ExitCodes == {0, 2}
NoExit == -1

\* The try block of Job._update_status: it sets the status of the
\* executor's own record r, PATCHes the server (patched: the PATCH went
\* through) and only then updates the tracker; call is the tracker call it
\* came to, raised whether the block was left by an exception.
update_status_try(T, r, status, patched) ==
    LET T0 == [T EXCEPT !.status[r] = status]
    IN  IF ~patched THEN T0 @@ [call |-> "none", raised |-> TRUE]
        ELSE IF is_tracked(T0, r.id)
        THEN update_job_status(T0, r.id, status) @@ [call |-> "update_job_status"]
        ELSE add_job(T0, r) @@ [call |-> "add_job"]

\* A status helper that passes the exception on to the calling phase.
update_status_reraise(T, r, status, patched) ==
    LET T1 == update_status_try(T, r, status, patched)
    IN  [active |-> T1.active, completed |-> T1.completed, status |-> T1.status,
         call |-> T1.call, logged |-> T1.raised, raised |-> T1.raised]

\* Job._update_status: the try block, and the handler that logs whatever
\* exception left it; logged is whether the error was logged, raised
\* whether the helper itself raises.
update_status(T, r, status, patched) ==
    LET T1 == update_status_try(T, r, status, patched)
    IN  [active |-> T1.active, completed |-> T1.completed, status |-> T1.status,
         call |-> T1.call, logged |-> T1.raised, raised |-> FALSE]

\* A status call whose PATCH the server files ahead of the earlier ones.
ApplyStatus_out_of_order(j, status, patched) ==
    LET T1 == update_status(Tracker, JobRec(j), status, patched)
    IN  /\ job_status' = T1.status
        /\ active_jobs' = T1.active
        /\ completed_jobs' = T1.completed
        /\ applied' = [applied EXCEPT ![j] =
                          Append(@, [status |-> status, patched |-> patched, call |-> T1.call,
                                     logged |-> T1.logged, raised |-> T1.raised])]
        /\ server_log' = IF patched THEN [server_log EXCEPT ![j] = <<status>> \o @]
                         ELSE server_log
        /\ ever_added' = ever_added \cup DOMAIN T1.active \cup DOMAIN T1.completed
        /\ UNCHANGED t_call

\* The state change of one _update_status(status) call of job j; the PATCH
\* is a blocking call, the server has the status when the call returns.
ApplyStatus(j, status, patched) ==
    LET T1 == update_status(Tracker, JobRec(j), status, patched)
    IN  /\ job_status' = T1.status
        /\ active_jobs' = T1.active
        /\ completed_jobs' = T1.completed
        /\ applied' = [applied EXCEPT ![j] =
                          Append(@, [status |-> status, patched |-> patched, call |-> T1.call,
                                     logged |-> T1.logged, raised |-> T1.raised])]
        /\ server_log' = IF patched THEN [server_log EXCEPT ![j] = Append(@, status)]
                         ELSE server_log
        /\ ever_added' = ever_added \cup DOMAIN T1.active \cup DOMAIN T1.completed
        /\ UNCHANGED t_call

\* What request_simulation_directory and the working-directory PATCH can do:
\* they can succeed only if the executor holds a FileManager.
SetupOutcomes(j) == IF job_fm[j] = "FileManager" THEN {TRUE, FALSE} ELSE {FALSE}

\* Job._setup up to the resource fetch: status PREPARING, the application
\* record, the simulation directory.
JobSetup(j) ==
    /\ job_pc[j] = "start"
    /\ \E patched \in BOOLEAN, ok \in SetupOutcomes(j) :
         /\ ApplyStatus(j, "PR", patched)
         /\ job_pc' = [job_pc EXCEPT ![j] = IF ok THEN "fetch" ELSE "except"]
         /\ job_failed' = [job_failed EXCEPT ![j] = IF ok THEN @ ELSE "setup"]
    /\ UNCHANGED <<job_fm, job_result, server_exit>>

\* A resource fetch whose failure is passed over: the run follows.
JobFetch_continue(j) ==
    /\ job_pc[j] = "fetch"
    /\ \E patched \in BOOLEAN, ok \in BOOLEAN :
         /\ ApplyStatus(j, "FR", patched)
         /\ job_pc' = [job_pc EXCEPT ![j] = "run"]
         /\ job_failed' = [job_failed EXCEPT ![j] = IF ok THEN @ ELSE "fetch"]
    /\ UNCHANGED <<job_fm, job_result, server_exit>>

\* Job._fetching_simulation_resources: status FETCHING_RESOURCES, then the
\* program and the resource files.
JobFetch(j) ==
    /\ job_pc[j] = "fetch"
    /\ \E patched \in BOOLEAN, ok \in BOOLEAN :
         /\ ApplyStatus(j, "FR", patched)
         /\ job_pc' = [job_pc EXCEPT ![j] = IF ok THEN "run" ELSE "except"]
         /\ job_failed' = [job_failed EXCEPT ![j] = IF ok THEN @ ELSE "fetch"]
    /\ UNCHANGED <<job_fm, job_result, server_exit>>

\* Job._run_application: status RUNNING, then the subprocess, which exits
\* with a code or cannot be run.
JobRun(j) ==
    /\ job_pc[j] = "run"
    /\ \E patched \in BOOLEAN, code \in ExitCodes \cup {NoExit} :
         /\ ApplyStatus(j, "RN", patched)
         /\ job_result' = [job_result EXCEPT ![j] = code]
         /\ job_pc' = [job_pc EXCEPT ![j] = IF code = NoExit THEN "except" ELSE "cleanup"]
         /\ job_failed' = [job_failed EXCEPT ![j] = IF code = NoExit THEN "run" ELSE @]
    /\ UNCHANGED <<job_fm, server_exit>>

\* Job._clean_up, first step: status CLEANING_UP.
JobCleanUp(j) ==
    /\ job_pc[j] = "cleanup"
    /\ \E patched \in BOOLEAN : ApplyStatus(j, "CU", patched)
    /\ job_pc' = [job_pc EXCEPT ![j] = "upload"]
    /\ UNCHANGED <<job_fm, job_result, job_failed, server_exit>>

\* Job._upload_application_results: status UPLOADING_RESULTS, then the logs.
JobUpload(j) ==
    /\ job_pc[j] = "upload"
    /\ \E patched \in BOOLEAN, ok \in BOOLEAN :
         /\ ApplyStatus(j, "UR", patched)
         /\ job_pc' = [job_pc EXCEPT ![j] = IF ok THEN "report" ELSE "except"]
         /\ job_failed' = [job_failed EXCEPT ![j] = IF ok THEN @ ELSE "upload"]
    /\ UNCHANGED <<job_fm, job_result, server_exit>>

\* A final status that takes every exit code for a success.
ResultStatus_any_code(code) == IF code >= 0 THEN "SD" ELSE "FD"

\* The final status of a finished subprocess.
ResultStatus(code) == IF code = 0 THEN "SD" ELSE "FD"

\* A result report that raises after the final status.
JobReport_then_raise(j) ==
    /\ job_pc[j] = "report"
    /\ \E patched \in BOOLEAN :
         /\ server_exit' = [server_exit EXCEPT ![j] = job_result[j]]
         /\ ApplyStatus(j, ResultStatus(job_result[j]), patched)
         /\ job_pc' = [job_pc EXCEPT ![j] = "except"]
         /\ job_failed' = [job_failed EXCEPT ![j] = "report"]
    /\ UNCHANGED <<job_fm, job_result>>

\* Job._report_application_result: PATCH the exit code (a failure raises),
\* then status SUCCEEDED or FAILED.
JobReport(j) ==
    /\ job_pc[j] = "report"
    /\ \E exit_patched \in BOOLEAN, patched \in BOOLEAN :
         IF exit_patched
         THEN /\ server_exit' = [server_exit EXCEPT ![j] = job_result[j]]
              /\ ApplyStatus(j, ResultStatus(job_result[j]), patched)
              /\ job_pc' = [job_pc EXCEPT ![j] = "done"]
              /\ UNCHANGED job_failed
         ELSE /\ job_pc' = [job_pc EXCEPT ![j] = "except"]
              /\ job_failed' = [job_failed EXCEPT ![j] = "report"]
              /\ UNCHANGED <<tvars, applied, server_log, server_exit>>
    /\ UNCHANGED <<job_fm, job_result>>

\* An exception handler that logs and reports no status.
JobExcept_no_status(j) ==
    /\ job_pc[j] = "except"
    /\ job_pc' = [job_pc EXCEPT ![j] = "done"]
    /\ UNCHANGED <<tvars, job_fm, job_result, job_failed, applied, server_log, server_exit>>

\* Job.launch, the except branch: log, status FAILED_EXCEPTION, return.
JobExcept(j) ==
    /\ job_pc[j] = "except"
    /\ \E patched \in BOOLEAN : ApplyStatus(j, "FE", patched)
    /\ job_pc' = [job_pc EXCEPT ![j] = "done"]
    /\ UNCHANGED <<job_fm, job_result, job_failed, server_exit>>

\* Jobs whose launch() was called directly, each with a FileManager, a
\* QUEUED record from the server and an empty tracker.
InitLaunched ==
    /\ job_status = [r \in {JobRec(j) : j \in LaunchedIds} |-> "QD"]
    /\ active_jobs = EmptyDict
    /\ completed_jobs = EmptyDict
    /\ ever_added = {}
    /\ t_call = [op |-> "none", id |-> 0, status |-> "QD", raised |-> FALSE]
    /\ job_pc = [j \in LaunchedIds |-> "start"]
    /\ job_fm = [j \in LaunchedIds |-> "FileManager"]
    /\ job_result = [j \in LaunchedIds |-> NoExit]
    /\ job_failed = [j \in LaunchedIds |-> "none"]
    /\ applied = [j \in LaunchedIds |-> <<>>]
    /\ server_log = [j \in LaunchedIds |-> <<>>]
    /\ server_exit = [j \in LaunchedIds |-> NoExit]

\* No job worker exists.
InitNoJobs ==
    /\ job_pc = EmptyDict
    /\ job_fm = EmptyDict
    /\ job_result = EmptyDict
    /\ job_failed = EmptyDict
    /\ applied = EmptyDict
    /\ server_log = EmptyDict
    /\ server_exit = EmptyDict

(***************************************************************************)
(* JobManager.  The pending queue is a queue.PriorityQueue of              *)
(* (priority, job) tuples: a binary heap kept by heapq.  Two tuples of     *)
(* equal priority are ordered by their job records, which define no order: *)
(* comparing two different records raises TypeError.                       *)
(***************************************************************************)
ManagedIds == 1..NumJobs
JobPriorities == 1..MaxJobPriority

Entry(p, id) == [priority |-> p, job |-> id]
NoEntry == Entry(0, 0)

\* (priority, job) < (priority, job) of two tuples.
EntryLess(a, b) ==
    IF a.priority # b.priority
    THEN (IF a.priority < b.priority THEN "yes" ELSE "no")
    ELSE IF a.job = b.job THEN "no" ELSE "TypeError"

Swap(h, i, k) == [h EXCEPT ![i] = h[k], ![k] = h[i]]

\* heapq's siftdown: move the item at pos up while it is below its parent.
RECURSIVE siftdown(_, _, _)
siftdown(h, startpos, pos) ==
    IF pos <= startpos THEN [heap |-> h, raised |-> FALSE]
    ELSE LET parentpos == pos \div 2
             cmp == EntryLess(h[pos], h[parentpos])
         IN  IF cmp = "TypeError" THEN [heap |-> h, raised |-> TRUE]
             ELSE IF cmp = "no" THEN [heap |-> h, raised |-> FALSE]
             ELSE siftdown(Swap(h, pos, parentpos), startpos, parentpos)

\* heapq's siftup, first loop: move the smaller child up down to a leaf.
RECURSIVE siftup_leaf(_, _)
siftup_leaf(h, pos) ==
    IF pos > Len(h) \div 2 THEN [heap |-> h, pos |-> pos, raised |-> FALSE]
    ELSE LET left == 2 * pos
             cmp == IF left + 1 <= Len(h) THEN EntryLess(h[left], h[left + 1]) ELSE "yes"
         IN  IF cmp = "TypeError" THEN [heap |-> h, pos |-> pos, raised |-> TRUE]
             ELSE LET child == IF cmp = "yes" THEN left ELSE left + 1
                  IN  siftup_leaf(Swap(h, child, pos), child)

siftup(h, pos) ==
    LET r == siftup_leaf(h, pos)
    IN  IF r.raised THEN [heap |-> r.heap, raised |-> TRUE]
        ELSE siftdown(r.heap, pos, r.pos)

\* heapq.heappush: the item stays in the list when a comparison raises.
heappush(h, item) == siftdown(Append(h, item), 1, Len(h) + 1)

\* heapq.heappop of a non-empty heap: the root is dropped when a comparison
\* raises.
heappop(h) ==
    LET n == Len(h)
        lastelt == h[n]
        rest == SubSeq(h, 1, n - 1)
    IN  IF n = 1 THEN [heap |-> rest, item |-> lastelt, raised |-> FALSE]
        ELSE LET r == siftup([rest EXCEPT ![1] = lastelt], 1)
             IN  [heap |-> r.heap, item |-> IF r.raised THEN NoEntry ELSE h[1],
                  raised |-> r.raised]

\* The content of a heap, as a set of entries.
Entries(h) == {h[i] : i \in 1..Len(h)}

\* JobManager._fetch_jobs over the server's list (jobs[1], jobs[2], ...):
\* a pending job is put on the queue, any other is added to the tracker.
RECURSIVE fetch_jobs(_, _, _, _)
fetch_jobs(jobs, prio, h, T) ==
    IF jobs = <<>> THEN [heap |-> h, T |-> T, raised |-> FALSE]
    ELSE LET id == Head(jobs)
         IN  IF job_status_to_activity_status(T.status[JobRec(id)]) = "PENDING"
             THEN LET r == heappush(h, Entry(prio[id], id))
                  IN  IF r.raised THEN [heap |-> r.heap, T |-> T, raised |-> TRUE]
                      ELSE fetch_jobs(Tail(jobs), prio, r.heap, T)
             ELSE LET T1 == add_job(T, JobRec(id))
                  IN  fetch_jobs(Tail(jobs), prio, h,
                                 [active |-> T1.active, completed |-> T1.completed,
                                  status |-> T1.status])

\* The server's job list, in id order.
RECURSIVE IdList(_)
IdList(n) == IF n = 0 THEN <<>> ELSE Append(IdList(n - 1), n)

\* The statuses of the jobs the server lists at start-up.
FetchStatuses == {"QD", "RN"}

\* A thread that was started and whose launch() has not returned.
is_alive(id) == job_pc[id] \notin {"idle", "done"}

\* JobManager._cleanup_finished_threads
cleanup_finished_threads(table) == {id \in table : is_alive(id)}

\* The tuple the rollback puts back: (job_info.priority, job_info).
requeue_entry(e) == Entry(job_priority[e.job], e.job)

\* JobManager._launch_new_job, the except branch, for the popped entry e:
\* thread says whether a Thread object exists, patched whether the QUEUED
\* PATCH goes through.  The handler's own except branch builds its log
\* message from self.job.id: logged says whether the error entry about the
\* failed reset was written, raised whether the handler itself raised (the
\* attribute lookup fails on a manager that has no field job).
rollback(h, unfinished, table, T, e, thread, patched) ==
    LET table1 == IF thread /\ e.job \in table THEN table \ {e.job} ELSE table
        T0 == [T EXCEPT !.status[JobRec(e.job)] = "QD"]
        fields == {"job_api", "server_proxy", "file_manager", "logger", "_pending_queue",
                   "_job_activity_tracker", "_observer_threads", "_is_running",
                   "_max_cpu_usage", "_max_concurrent_jobs", "_max_main_loop_count"}
        has_job == "job" \in fields
    IN  IF ~patched
        THEN [heap |-> h, unfinished |-> unfinished, table |-> table1, T |-> T0,
              logged |-> has_job, raised |-> ~has_job]
        ELSE LET r == heappush(h, requeue_entry(e))
             IN  IF r.raised
                 THEN [heap |-> r.heap, unfinished |-> unfinished, table |-> table1,
                       T |-> T0, logged |-> has_job, raised |-> ~has_job]
                 ELSE LET T1 == IF is_tracked(T0, e.job) THEN remove_job(T0, e.job)
                                ELSE T0
                      IN  [heap |-> r.heap, unfinished |-> unfinished, table |-> table1,
                           T |-> [active |-> T1.active, completed |-> T1.completed,
                                  status |-> T1.status],
                           logged |-> FALSE, raised |-> FALSE]

\* A pass through the loop body that does not count.
EndTick_stuck ==
    /\ loop_count' = loop_count
    /\ is_running' = TRUE
    /\ mgr_pc' = "tick"

\* The end of a pass through the loop body of main().
EndTick ==
    /\ loop_count' = loop_count + 1
    /\ is_running' = (loop_count + 1 < MaxMainLoopCount)
    /\ mgr_pc' = IF loop_count + 1 < MaxMainLoopCount THEN "tick" ELSE "exit"

\* main(), the head of a tick: reap the finished workers, read the
\* tracker's active count; at capacity sleep and end the tick.
MgrTick ==
    /\ mgr_pc = "tick"
    /\ is_running
    /\ observer_threads' = cleanup_finished_threads(observer_threads)
    /\ no_active_jobs' = active_count(Tracker)
    /\ IF active_count(Tracker) < MaxConcurrentJobs
       THEN mgr_pc' = "get" /\ UNCHANGED <<loop_count, is_running>>
       ELSE EndTick
    /\ UNCHANGED <<pending_queue, unfinished_tasks, job_priority, last_launch>>
    /\ UNCHANGED <<tvars, jvars>>

\* What the launch branch of a tick leaves in last_launch.
Launch(e, outcome, patched) ==
    [tick |-> loop_count, job |-> e.job, priority |-> e.priority, outcome |-> outcome,
     patched |-> patched,
     live |-> Cardinality({id \in JobIds : is_alive(id)}),
     active |-> active_count(Tracker)]

\* main(), the launch branch: get a pending job (Empty after the timeout
\* on an empty queue) and _launch_new_job it.  fail names what raises in
\* _launch_new_job: nothing, the Job constructor, or the thread start.
MgrGetLaunch ==
    /\ mgr_pc = "get"
    /\ EndTick
    /\ UNCHANGED <<no_active_jobs, job_priority>>
    /\ UNCHANGED <<qvars, job_result, job_failed, applied, server_exit, ever_added, t_call>>
    /\ IF pending_queue = <<>>
       THEN /\ last_launch' = Launch(NoEntry, "empty", FALSE)
            /\ UNCHANGED <<pending_queue, unfinished_tasks, observer_threads>>
            /\ UNCHANGED <<job_status, active_jobs, completed_jobs, job_pc, job_fm, server_log>>
       ELSE LET g == heappop(pending_queue)
            IN  IF g.raised
                THEN /\ pending_queue' = g.heap
                     /\ last_launch' = Launch(NoEntry, "get_raised", FALSE)
                     /\ UNCHANGED <<unfinished_tasks, observer_threads>>
                     /\ UNCHANGED <<job_status, active_jobs, completed_jobs, job_pc, job_fm,
                                    server_log>>
                ELSE \E fail \in {"none", "ctor", "start"}, patched \in BOOLEAN :
                       IF fail = "none" /\ unfinished_tasks > 0
                       THEN /\ patched
                            /\ job_pc' = [job_pc EXCEPT ![g.item.job] = "start"]
                            /\ job_fm' = [job_fm EXCEPT ![g.item.job] = "Path"]
                            /\ observer_threads' = observer_threads \cup {g.item.job}
                            /\ unfinished_tasks' = unfinished_tasks - 1
                            /\ pending_queue' = g.heap
                            /\ last_launch' = Launch(g.item, "started", FALSE)
                            /\ UNCHANGED <<job_status, active_jobs, completed_jobs, server_log>>
                       ELSE LET started == (fail = "none")
                                table0 == IF started
                                          THEN observer_threads \cup {g.item.job}
                                          ELSE observer_threads
                                r == rollback(g.heap, unfinished_tasks, table0, Tracker,
                                              g.item, fail # "ctor", patched)
                            IN  /\ pending_queue' = r.heap
                                /\ unfinished_tasks' = r.unfinished
                                /\ observer_threads' = r.table
                                /\ job_status' = r.T.status
                                /\ active_jobs' = r.T.active
                                /\ completed_jobs' = r.T.completed
                                /\ server_log' =
                                     IF patched
                                     THEN [server_log EXCEPT ![g.item.job] = Append(@, "QD")]
                                     ELSE server_log
                                /\ job_pc' = IF started
                                             THEN [job_pc EXCEPT ![g.item.job] = "start"]
                                             ELSE job_pc
                                /\ job_fm' = IF started
                                             THEN [job_fm EXCEPT ![g.item.job] = "Path"]
                                             ELSE job_fm
                                /\ last_launch' =
                                     Launch(g.item,
                                            IF started THEN "started_then_failed"
                                            ELSE IF r.raised THEN "rollback_raised"
                                            ELSE IF r.logged THEN "reset_logged"
                                            ELSE "requeued",
                                            patched)

\* The manager after construction: _fetch_jobs has run over the server's
\* list without raising, or the list could not be fetched.
InitManager ==
    \E prio \in [ManagedIds -> JobPriorities], st \in [ManagedIds -> FetchStatuses],
       fetched \in BOOLEAN :
       LET status0 == [r \in {JobRec(id) : id \in ManagedIds} |-> st[r.id]]
           T0 == [active |-> EmptyDict, completed |-> EmptyDict, status |-> status0]
           f == IF fetched THEN fetch_jobs(IdList(NumJobs), prio, <<>>, T0)
                ELSE [heap |-> <<>>, T |-> T0, raised |-> FALSE]
       IN  /\ ~f.raised
           /\ job_priority = prio
           /\ job_status = status0
           /\ pending_queue = f.heap
           /\ unfinished_tasks = Len(f.heap)
           /\ active_jobs = f.T.active
           /\ completed_jobs = f.T.completed
           /\ ever_added = DOMAIN f.T.active \cup DOMAIN f.T.completed
           /\ t_call = [op |-> "none", id |-> 0, status |-> "QD", raised |-> FALSE]
           /\ observer_threads = {}
           /\ mgr_pc = "tick"
           /\ loop_count = 0
           /\ is_running = TRUE
           /\ no_active_jobs = 0
           /\ last_launch = [tick |-> 0, job |-> 0, priority |-> 0, outcome |-> "none",
                             patched |-> FALSE, live |-> 0, active |-> 0]
           /\ job_pc = [j \in ManagedIds |-> "idle"]
           /\ job_fm = [j \in ManagedIds |-> "none"]
           /\ job_result = [j \in ManagedIds |-> NoExit]
           /\ job_failed = [j \in ManagedIds |-> "none"]
           /\ applied = [j \in ManagedIds |-> <<>>]
           /\ server_log = [j \in ManagedIds |-> <<>>]
           /\ server_exit = [j \in ManagedIds |-> NoExit]

\* The manager before its construction: the server holds a list of jobs 1
\* to n, of any priorities and statuses (n = 0: no job, or the list cannot
\* be fetched).
InitNewManager ==
    \E n \in 0..NumJobs :
      \E prio \in [1..n -> JobPriorities], st \in [1..n -> Statuses] :
        /\ job_priority = prio
        /\ job_status = [r \in {JobRec(id) : id \in 1..n} |-> st[r.id]]
        /\ active_jobs = EmptyDict
        /\ completed_jobs = EmptyDict
        /\ ever_added = {}
        /\ t_call = [op |-> "none", id |-> 0, status |-> "QD", raised |-> FALSE]
        /\ pending_queue = <<>>
        /\ unfinished_tasks = 0
        /\ observer_threads = {}
        /\ mgr_pc = "new"
        /\ loop_count = 0
        /\ is_running = FALSE
        /\ no_active_jobs = 0
        /\ last_launch = [tick |-> 0, job |-> 0, priority |-> 0, outcome |-> "none",
                          patched |-> FALSE, live |-> 0, active |-> 0]
        /\ job_pc = [j \in ManagedIds |-> "idle"]
        /\ job_fm = [j \in ManagedIds |-> "none"]
        /\ job_result = [j \in ManagedIds |-> NoExit]
        /\ job_failed = [j \in ManagedIds |-> "none"]
        /\ applied = [j \in ManagedIds |-> <<>>]
        /\ server_log = [j \in ManagedIds |-> <<>>]
        /\ server_exit = [j \in ManagedIds |-> NoExit]

\* JobManager.__init__: the fields are set and _fetch_jobs runs over the
\* server's list; what a put on the pending queue raises leaves __init__.
MgrConstruct ==
    /\ mgr_pc = "new"
    /\ LET f == fetch_jobs(IdList(Cardinality(DOMAIN job_priority)), job_priority, <<>>,
                           Tracker)
       IN  /\ pending_queue' = f.heap
           /\ unfinished_tasks' = IF f.raised THEN Len(f.heap) - 1 ELSE Len(f.heap)
           /\ active_jobs' = f.T.active
           /\ completed_jobs' = f.T.completed
           /\ job_status' = f.T.status
           /\ ever_added' = DOMAIN f.T.active \cup DOMAIN f.T.completed
           /\ mgr_pc' = IF f.raised THEN "raised" ELSE "tick"
    /\ is_running' = TRUE
    /\ UNCHANGED <<t_call, observer_threads, job_priority, loop_count, no_active_jobs,
                   last_launch>>

\* No manager exists.
InitNoManager ==
    /\ pending_queue = <<>>
    /\ unfinished_tasks = 0
    /\ observer_threads = {}
    /\ job_priority = EmptyDict
    /\ mgr_pc = "exit"
    /\ loop_count = 0
    /\ is_running = FALSE
    /\ no_active_jobs = 0
    /\ last_launch = [tick |-> 0, job |-> 0, priority |-> 0, outcome |-> "none",
                      patched |-> FALSE, live |-> 0, active |-> 0]

(***************************************************************************)
(* ServerProxy, the outbound side: push_message, push_message_with_response *)
(* and the sender worker _send_handler with _send_message.                 *)
(***************************************************************************)
HttpMethods == {"POST", "UNSUPPORTED"}
FilePaths == {"none", "exists", "missing"}

\* An outbound message: id, priority, verb and file reference.
OutMessage(id, p, method, file_path) ==
    [msg_id |-> id, priority |-> p, method |-> method, file_path |-> file_path]

\* What the request of one message meets: the transport delivers or raises,
\* the status is 2xx or an error, the body decodes to an object with a
\* 'message' entry, to one without, or does not decode.
Responses ==
    [transport : {"ok", "raises"}, status : {"2xx", "error"},
     body : {"json", "json_no_message", "undecodable"}]

NoFuture == [state |-> "none", value |-> "none", completions |-> 0]
PendingFuture == [state |-> "pending", value |-> "none", completions |-> 0]

\* ServerProxy._handle_response_future: pop the future of the message and
\* give it the decoded body, or the exception of the decoding.
handle_response_future(table, futs, id, response) ==
    IF id \in table
    THEN [table |-> table \ {id},
          futures |-> [futs EXCEPT ![id] =
                         IF response.body = "undecodable"
                         THEN [state |-> "exception", value |-> "decode",
                               completions |-> @.completions + 1]
                         ELSE [state |-> "result", value |-> response.status,
                               completions |-> @.completions + 1]]]
    ELSE [table |-> table, futures |-> futs]

\* ServerProxy._send_message of message m meeting response: what it raises
\* ("none": it returns) and what it leaves of the table and the futures.
\* The file of a file message is closed again before the request is made;
\* the request is left to deliver or to raise.
send_message(m, response, table, futs) ==
    LET untouched(e) == [raised |-> e, table |-> table, futures |-> futs]
    IN  IF m.file_path = "missing" THEN untouched("FileNotFoundError")
        ELSE IF m.method = "UNSUPPORTED" THEN untouched("ValueError")
        ELSE IF response.transport = "raises" THEN untouched("RequestException")
        ELSE IF response.body = "undecodable" THEN untouched("JSONDecodeError")
        ELSE IF response.status = "error" /\ response.body = "json_no_message"
             THEN untouched("KeyError")
        ELSE LET h1 == handle_response_future(table, futs, m.msg_id, response)
                 h2 == IF response.status = "2xx"
                       THEN handle_response_future(h1.table, h1.futures, m.msg_id, response)
                       ELSE h1
             IN  [raised |-> "none", table |-> h2.table, futures |-> h2.futures]

\* A push_message_with_response that leaves the future of a message it
\* could not queue in the table.
push_message_with_response_keep(table, id, raises) ==
    [table |-> table \cup {id}, raised |-> raises]

\* ServerProxy.push_message_with_response, the response-future table: the
\* new future is stored under the message id; when push_message raises, the
\* entry of the id is popped again and the exception goes on to the caller.
push_message_with_response(table, id, raises) ==
    IF raises THEN [table |-> (table \cup {id}) \ {id}, raised |-> TRUE]
    ELSE [table |-> table \cup {id}, raised |-> FALSE]

\* A push_message that queues the message and never sets the event.
ProxyPushMessage_silent(p, method, file_path, raises) ==
    /\ next_msg_id <= MaxSendMsgs
    /\ queue' = IF raises THEN queue
                ELSE push_message(queue, OutMessage(next_msg_id, p, method, file_path))
    /\ futures' = Append(futures, NoFuture)
    /\ sent' = Append(sent, IF raises THEN "push_failed" ELSE "unsent")
    /\ next_msg_id' = next_msg_id + 1
    /\ UNCHANGED <<q_op, q_ret, q_pre, drained, popped, running, new_send_message, pushing,
                   response_futures, send_pc, heartbeat>>

\* ServerProxy.push_message of a message of priority p, up to the queue's
\* push: the message is queued, the event is still to be set; raises: the
\* queue could not take the message, the exception is logged and raised
\* again.
ProxyPushMessage(p, method, file_path, raises) ==
    /\ next_msg_id <= MaxSendMsgs
    /\ queue' = IF raises THEN queue
                ELSE push_message(queue, OutMessage(next_msg_id, p, method, file_path))
    /\ pushing' = IF raises THEN pushing ELSE pushing \cup {next_msg_id}
    /\ futures' = Append(futures, NoFuture)
    /\ sent' = Append(sent, IF raises THEN "push_failed" ELSE "unsent")
    /\ next_msg_id' = next_msg_id + 1
    /\ UNCHANGED <<q_op, q_ret, q_pre, drained, popped, running, new_send_message,
                   response_futures, send_pc, heartbeat>>

\* ServerProxy.push_message, after the queue's push: set the event.
ProxySetEvent(id) ==
    /\ id \in pushing
    /\ pushing' = pushing \ {id}
    /\ new_send_message' = TRUE
    /\ UNCHANGED <<qvars, running, response_futures, futures, send_pc, sent, heartbeat>>

\* ServerProxy.push_message_with_response: register a new future under the
\* message id, then push_message up to the queue's push; the caller gets
\* the future once the event is set, or the exception of push_message.
ProxyPushMessageWithResponse(p, method, file_path, raises) ==
    /\ next_msg_id <= MaxSendMsgs
    /\ queue' = IF raises THEN queue
                ELSE push_message(queue, OutMessage(next_msg_id, p, method, file_path))
    /\ pushing' = IF raises THEN pushing ELSE pushing \cup {next_msg_id}
    /\ response_futures' = push_message_with_response(response_futures, next_msg_id,
                                                        raises).table
    /\ futures' = Append(futures, IF raises THEN NoFuture ELSE PendingFuture)
    /\ sent' = Append(sent, IF push_message_with_response(response_futures, next_msg_id,
                                                           raises).raised
                            THEN "push_failed" ELSE "unsent")
    /\ next_msg_id' = next_msg_id + 1
    /\ UNCHANGED <<q_op, q_ret, q_pre, drained, popped, running, new_send_message, send_pc,
                   heartbeat>>

\* _send_handler: the wait on the event returns with the event set.
SendWait ==
    /\ send_pc = "wait"
    /\ running
    /\ new_send_message
    /\ send_pc' = "clear"
    /\ UNCHANGED <<qvars, running, new_send_message, pushing, response_futures, futures, sent,
                   heartbeat>>

\* _send_handler: clear the event before the queue is drained.
SendClear ==
    /\ send_pc = "clear"
    /\ new_send_message' = FALSE
    /\ send_pc' = "drain"
    /\ UNCHANGED <<qvars, running, pushing, response_futures, futures, sent, heartbeat>>

\* _send_handler, one pass of the drain loop: take the next message and
\* _send_message it; whatever it raises is logged and the loop goes on.
SendNext(response) ==
    /\ send_pc = "drain"
    /\ ~is_empty(queue)
    /\ LET g == get_next_message(queue)
           r == send_message(g.ret, response, response_futures, futures)
       IN  /\ queue' = g.queue
           /\ popped' = Append(popped, g.ret.msg_id)
           /\ response_futures' = r.table
           /\ futures' = r.futures
           /\ sent' = [sent EXCEPT ![g.ret.msg_id] =
                         IF r.raised = "none" THEN response.status ELSE r.raised]
    /\ UNCHANGED <<q_op, q_ret, q_pre, drained, next_msg_id, running, new_send_message,
                   pushing, send_pc, heartbeat>>

\* _send_handler: the queue is empty; with next_report_time reached the
\* status report is next, else the head of the loop.
SendDrained ==
    /\ send_pc = "drain"
    /\ is_empty(queue)
    /\ send_pc' = IF heartbeat.due THEN "report" ELSE "wait"
    /\ UNCHANGED <<qvars, running, new_send_message, pushing, response_futures, futures, sent,
                   heartbeat>>

\* Time reaches next_report_time.
DeadlinePasses ==
    /\ running
    /\ ~heartbeat.due
    /\ heartbeat' = [heartbeat EXCEPT !.due = TRUE]
    /\ UNCHANGED <<qvars, running, new_send_message, pushing, response_futures, futures, send_pc,
                   sent>>

\* _send_handler: the wait on the event times out at next_report_time with
\* the event not set; no message is taken, the status report is next.
SendTimeout ==
    /\ send_pc = "wait"
    /\ running
    /\ ~new_send_message
    /\ heartbeat.due
    /\ send_pc' = "report"
    /\ UNCHANGED <<qvars, running, new_send_message, pushing, response_futures, futures, sent,
                   heartbeat>>

\* A status report whose failure ends the sender worker.
SendHeartbeat_exit(outcome) ==
    /\ send_pc = "report"
    /\ heartbeat' = [due |-> FALSE, last |-> outcome, prev |-> heartbeat.last,
                     parity |-> 1 - heartbeat.parity]
    /\ send_pc' = IF outcome = "failed" THEN "exit" ELSE "wait"
    /\ UNCHANGED <<qvars, running, new_send_message, pushing, response_futures, futures, sent>>

\* _send_handler: _report_status('idle') goes through or raises; what it
\* raises is dropped, next_report_time moves one report_interval on and the
\* loop goes back to its head.
SendHeartbeat(outcome) ==
    /\ send_pc = "report"
    /\ heartbeat' = [due |-> FALSE, last |-> outcome, prev |-> heartbeat.last,
                     parity |-> 1 - heartbeat.parity]
    /\ send_pc' = "wait"
    /\ UNCHANGED <<qvars, running, new_send_message, pushing, response_futures, futures, sent>>

\* The owner of the proxy clears running (command_line_interface/run.py).
StopProxy ==
    /\ running
    /\ running' = FALSE
    /\ UNCHANGED <<qvars, new_send_message, pushing, response_futures, futures, send_pc,
                   sent, heartbeat>>

\* _send_handler: the loop condition is false, the worker returns.
SendExit ==
    /\ send_pc = "wait"
    /\ ~running
    /\ send_pc' = "exit"
    /\ UNCHANGED <<qvars, running, new_send_message, pushing, response_futures, futures, sent,
                   heartbeat>>

\* No status report was attempted, next_report_time lies ahead.
NoHeartbeat == [due |-> FALSE, last |-> "none", prev |-> "none", parity |-> 0]

\* The proxy after construction, the sender worker started.
InitProxySend ==
    /\ running = TRUE
    /\ new_send_message = FALSE
    /\ pushing = {}
    /\ response_futures = {}
    /\ futures = <<>>
    /\ send_pc = "wait"
    /\ sent = <<>>
    /\ heartbeat = NoHeartbeat

\* No proxy exists.
InitNoProxySend ==
    /\ running = FALSE
    /\ new_send_message = FALSE
    /\ pushing = {}
    /\ response_futures = {}
    /\ futures = <<>>
    /\ send_pc = "exit"
    /\ sent = <<>>
    /\ heartbeat = NoHeartbeat

(***************************************************************************)
(* ServerProxy, the inbound side: the observer registry and the handling   *)
(* of one frame of the persistent connection, _handle_ws_message.          *)
(***************************************************************************)
MessageTypes == {"ping", "terminate"}
NoId == 0
NoType == "none"

\* What a callback does with a frame: return a dict, a dict that has an
\* 'id' entry, nothing, a value that cannot be completed or serialised as a
\* reply, or raise.
Behaviours == {"dict", "dict_with_id", "nothing", "bad_value", "raises"}

Frame(id, type) == [id |-> id, type |-> type]
\* A reply frame: its 'type', 'response_to' and 'data' entries, and the
\* number of the inbound frame it was sent for.
Reply(type, response_to, data, frame) ==
    [type |-> type, response_to |-> response_to, data |-> data, frame |-> frame]

\* What the 'data' entry of an error frame says, and the place of 'data' in
\* a reply that is not an error frame.
ErrorData == {"no_type", "unknown_type", "processing_error"}
NoData == "none"

\* An error reply that is never sent.
ws_error_response_silent(n, message_id, data, connected, open) == <<>>

\* An error reply that is sent as a success frame.
ws_error_response_success(n, message_id, data, connected, open) ==
    IF connected /\ open THEN <<Reply("success", message_id, NoData, n)>> ELSE <<>>

\* An error reply that is written whatever the state of the connection.
ws_error_response_unchecked(n, message_id, data, connected, open) ==
    <<Reply("error", message_id, data, n)>>

\* ServerProxy._ws_error_response: the error frame, sent if the proxy holds
\* the connection for connected; a failing send is logged.
ws_error_response(n, message_id, data, connected, open) ==
    IF connected /\ open THEN <<Reply("error", message_id, data, n)>> ELSE <<>>

\* ServerProxy._handle_ws_message: whether the frame reaches a callback.
invokes_callback(frame, obs) ==
    frame.id # NoId /\ frame.type # NoType /\ frame.type \in DOMAIN obs

\* A _handle_ws_message that answers a frame without an id with an error.
handle_ws_message_answer_all(n, frame, obs, connected, open, behaviour) ==
    <<Reply("error", frame.id, "no_type", n)>>

\* ServerProxy._handle_ws_message for the n-th frame: the reply frames it
\* sends.  behaviour is what the callback of the frame's type does when
\* there is one; a send goes through if the connection is open.
handle_ws_message(n, frame, obs, connected, open, behaviour) ==
    IF frame.id = NoId THEN <<>>
    ELSE IF frame.type = NoType
    THEN ws_error_response(n, frame.id, "no_type", connected, open)
    ELSE IF frame.type \in DOMAIN obs
    THEN IF behaviour \in {"raises", "bad_value"}
         THEN ws_error_response(n, frame.id, "processing_error", connected, open)
         ELSE LET response ==
                    Reply(IF behaviour = "nothing" THEN "success" ELSE "handler",
                          IF behaviour = "dict_with_id" THEN NoId ELSE frame.id,
                          NoData, n)
              IN  IF open THEN <<response>>
                  ELSE ws_error_response(n, frame.id, "processing_error", connected, open)
    ELSE ws_error_response(n, frame.id, "unknown_type", connected, open)

\* The callbacks handed to register_observer.
Handlers == {"h1", "h2"}

\* A register_observer that replaces the callback of the type.
register_observer_replace(obs, t, h) ==
    [observers |-> DictPut(obs, t, h), raised |-> t \in DOMAIN obs]

\* ServerProxy.register_observer: store the callback under a type that has
\* none, raise RuntimeError for a type that has one.
register_observer(obs, t, h) ==
    IF t \notin DOMAIN obs
    THEN [observers |-> DictPut(obs, t, h), raised |-> FALSE]
    ELSE [observers |-> obs, raised |-> TRUE]

\* A deregister_observer that empties the registry.
deregister_observer_all(obs, t) ==
    IF t \in DOMAIN obs
    THEN [observers |-> EmptyDict, raised |-> FALSE]
    ELSE [observers |-> obs, raised |-> TRUE]

\* ServerProxy.deregister_observer: delete the callback of a type that has
\* one, raise RuntimeError for a type that has none.
deregister_observer(obs, t) ==
    IF t \in DOMAIN obs
    THEN [observers |-> DictDel(obs, t), raised |-> FALSE]
    ELSE [observers |-> obs, raised |-> TRUE]

\* A register_observer call that goes through, while frames are handled.
RegisterObserver(t, h) ==
    /\ ~register_observer(observers, t, h).raised
    /\ observers' = register_observer(observers, t, h).observers
    /\ UNCHANGED <<reg_log, ws_connected, ws_open, recv_pc, recv_slept, ws_callback, ws_frames,
                   ws_sent>>

\* A deregister_observer call that goes through, while frames are handled.
DeregisterObserver(t) ==
    /\ ~deregister_observer(observers, t).raised
    /\ observers' = deregister_observer(observers, t).observers
    /\ UNCHANGED <<reg_log, ws_connected, ws_open, recv_pc, recv_slept, ws_callback, ws_frames,
                   ws_sent>>

\* Any register_observer call, from any thread (the calls are serialised
\* by _observers_lock), with its record in the history.
CallRegisterObserver(t, h) ==
    /\ Len(reg_log) < MaxRegCalls
    /\ observers' = register_observer(observers, t, h).observers
    /\ reg_log' = Append(reg_log, [op |-> "register", type |-> t, handler |-> h,
                                   raised |-> register_observer(observers, t, h).raised,
                                   pre |-> observers])
    /\ UNCHANGED <<ws_connected, ws_open, recv_pc, recv_slept, ws_callback, ws_frames, ws_sent>>

\* Any deregister_observer call, with its record in the history.
CallDeregisterObserver(t) ==
    /\ Len(reg_log) < MaxRegCalls
    /\ observers' = deregister_observer(observers, t).observers
    /\ reg_log' = Append(reg_log, [op |-> "deregister", type |-> t, handler |-> "none",
                                   raised |-> deregister_observer(observers, t).raised,
                                   pre |-> observers])
    /\ UNCHANGED <<ws_connected, ws_open, recv_pc, recv_slept, ws_callback, ws_frames, ws_sent>>

\* _receive_handler at the head of its loop: with running set it makes a
\* WebSocketApp and calls run_forever, with running cleared the worker
\* returns.
ReceiveLoop ==
    /\ recv_pc = "loop"
    /\ recv_pc' = IF running THEN "run" ELSE "exit"
    /\ UNCHANGED <<observers, reg_log, ws_connected, ws_open, recv_slept, ws_callback,
                   ws_frames, ws_sent>>

\* run_forever has connected: _on_ws_open.
WsOpen ==
    /\ recv_pc = "run"
    /\ ~ws_connected
    /\ ws_connected' = TRUE
    /\ ws_open' = TRUE
    /\ UNCHANGED <<observers, reg_log, recv_pc, recv_slept, ws_callback, ws_frames, ws_sent>>

\* run_forever could not connect: it returns, or it raises and the handler
\* logs and sleeps.
WsConnectFailed(raises) ==
    /\ recv_pc = "run"
    /\ ~ws_connected
    /\ recv_pc' = IF raises THEN "sleep" ELSE "returned"
    /\ UNCHANGED <<observers, reg_log, ws_connected, ws_open, recv_slept, ws_callback,
                   ws_frames, ws_sent>>

\* The connection breaks; the proxy has not been told yet.
WsDrop ==
    /\ ws_open
    /\ ws_open' = FALSE
    /\ UNCHANGED <<observers, reg_log, ws_connected, recv_pc, recv_slept, ws_callback,
                   ws_frames, ws_sent>>

\* _on_ws_close, after which run_forever returns.
WsClose ==
    /\ ws_connected
    /\ ~ws_open
    /\ ws_connected' = FALSE
    /\ recv_pc' = "returned"
    /\ UNCHANGED <<observers, reg_log, ws_open, recv_slept, ws_callback, ws_frames, ws_sent>>

\* A receiver worker that takes up the connection again without a pause.
ReceiveReturned_no_sleep ==
    /\ recv_pc = "returned"
    /\ recv_pc' = "loop"
    /\ UNCHANGED <<observers, reg_log, ws_connected, ws_open, recv_slept, ws_callback,
                   ws_frames, ws_sent>>

\* _receive_handler after run_forever has returned: with running set it
\* logs the disconnect and sleeps 5 s, else it goes to the head of the loop.
ReceiveReturned ==
    /\ recv_pc = "returned"
    /\ recv_pc' = IF running THEN "sleep" ELSE "loop"
    /\ UNCHANGED <<observers, reg_log, ws_connected, ws_open, recv_slept, ws_callback,
                   ws_frames, ws_sent>>

\* _receive_handler: the 5 s sleep is over.
ReceiveSlept ==
    /\ recv_pc = "sleep"
    /\ recv_pc' = "loop"
    /\ recv_slept' = TRUE
    /\ UNCHANGED <<observers, reg_log, ws_connected, ws_open, ws_callback, ws_frames, ws_sent>>

\* _handle_ws_message on a frame read from the connection.
HandleWsMessage ==
    /\ ws_connected
    /\ Len(ws_frames) < MaxFrames
    /\ \E has_id \in BOOLEAN, type \in MessageTypes \cup {NoType}, behaviour \in Behaviours :
         LET n == Len(ws_frames) + 1
             frame == Frame(IF has_id THEN n ELSE NoId, type)
         IN  /\ (~invokes_callback(frame, observers) => behaviour = "nothing")
             /\ ws_frames' = Append(ws_frames,
                                    [frame |-> frame, registered |-> type \in DOMAIN observers,
                                     invoked |-> invokes_callback(frame, observers),
                                     behaviour |-> behaviour, open |-> ws_open])
             /\ ws_sent' = ws_sent \o handle_ws_message(n, frame, observers, ws_connected,
                                                       ws_open, behaviour)
    /\ UNCHANGED <<observers, reg_log, ws_connected, ws_open, recv_pc, recv_slept,
                   ws_callback>>

\* _handle_ws_message on a frame that has an id and a type, up to the
\* release of _observers_lock: the callback of the type is read from the
\* registry.  The frame is of a type that has a callback.
WsLookup(type) ==
    /\ ws_connected
    /\ ws_callback.type = NoType
    /\ Len(ws_frames) < MaxFrames
    /\ type \in DOMAIN observers
    /\ ws_callback' = [type |-> type, callback |-> observers[type]]
    /\ UNCHANGED <<observers, reg_log, ws_connected, ws_open, recv_pc, recv_slept,
                   ws_frames, ws_sent>>

\* _handle_ws_message from the call of the callback on: the callback read
\* before is called and the reply is sent.  The record of the frame says
\* whether the type is in the registry at the time of the call.
WsInvoke(behaviour) ==
    /\ ws_callback.type # NoType
    /\ LET n == Len(ws_frames) + 1
           frame == Frame(n, ws_callback.type)
           held == DictPut(EmptyDict, ws_callback.type, ws_callback.callback)
       IN  /\ ws_frames' = Append(ws_frames,
                                  [frame |-> frame,
                                   registered |-> ws_callback.type \in DOMAIN observers,
                                   invoked |-> invokes_callback(frame, held),
                                   behaviour |-> behaviour, open |-> ws_open])
           /\ ws_sent' = ws_sent \o handle_ws_message(n, frame, held, ws_connected,
                                                     ws_open, behaviour)
    /\ ws_callback' = [type |-> NoType, callback |-> "none"]
    /\ UNCHANGED <<observers, reg_log, ws_connected, ws_open, recv_pc, recv_slept>>

\* The proxy after construction, the receiver worker not yet connected.
InitProxyWs ==
    /\ observers = EmptyDict
    /\ reg_log = <<>>
    /\ ws_connected = FALSE
    /\ ws_open = FALSE
    /\ recv_pc = "loop"
    /\ recv_slept = FALSE
    /\ ws_callback = [type |-> NoType, callback |-> "none"]
    /\ ws_frames = <<>>
    /\ ws_sent = <<>>

InitAll ==
    InitQueue /\ InitTracker /\ InitNoJobs /\ InitNoManager /\ InitNoProxySend /\ InitProxyWs

InitJob == InitQueue /\ InitLaunched /\ InitNoManager /\ InitNoProxySend /\ InitProxyWs

InitMgr == InitQueue /\ InitManager /\ InitNoProxySend /\ InitProxyWs

InitSend ==
    InitQueue /\ InitTracker /\ InitNoJobs /\ InitNoManager /\ InitProxySend /\ InitProxyWs

SpecQueue == InitAll /\ [][NextQueue]_vars

NextTracker ==
    \/ \E r \in TrackRecords, s \in TrackStatuses : TAdd(r, s) /\ UNCHANGED <<qvars, jvars, mvars, svars, wvars>>
    \/ \E id \in TrackIds, s \in TrackStatuses : TUpdate(id, s) /\ UNCHANGED <<qvars, jvars, mvars, svars, wvars>>
    \/ \E id \in TrackIds : TRemove(id) /\ UNCHANGED <<qvars, jvars, mvars, svars, wvars>>

SpecTracker == InitAll /\ [][NextTracker]_vars

NextJob ==
    \/ \E j \in JobIds : JobSetup(j) /\ UNCHANGED <<qvars, mvars, svars, wvars>>
    \/ \E j \in JobIds : JobFetch(j) /\ UNCHANGED <<qvars, mvars, svars, wvars>>
    \/ \E j \in JobIds : JobRun(j) /\ UNCHANGED <<qvars, mvars, svars, wvars>>
    \/ \E j \in JobIds : JobCleanUp(j) /\ UNCHANGED <<qvars, mvars, svars, wvars>>
    \/ \E j \in JobIds : JobUpload(j) /\ UNCHANGED <<qvars, mvars, svars, wvars>>
    \/ \E j \in JobIds : JobReport(j) /\ UNCHANGED <<qvars, mvars, svars, wvars>>
    \/ \E j \in JobIds : JobExcept(j) /\ UNCHANGED <<qvars, mvars, svars, wvars>>

SpecJob == InitJob /\ [][NextJob]_vars

\* The number of terminal statuses in a sequence of statuses.
CountTerminal(seq) == Cardinality({i \in 1..Len(seq) : seq[i] \in CompleteStatuses})

\* The positions of the statuses job j's executor applied that are terminal.
TerminalApplied(j) ==
    {i \in 1..Len(applied[j]) : applied[j][i].status \in CompleteStatuses}

C8_PhaseMatchesMap ==
    /\ \A id \in DOMAIN active_jobs :
         job_status_to_activity_status(job_status[active_jobs[id]]) = "ACTIVE"
    /\ \A id \in DOMAIN completed_jobs :
         job_status_to_activity_status(job_status[completed_jobs[id]]) = "COMPLETE"

NextManager ==
    \/ MgrTick /\ UNCHANGED <<qvars, svars, wvars>>
    \/ MgrGetLaunch /\ UNCHANGED <<svars, wvars>>
    \/ \E j \in JobIds : JobSetup(j) /\ UNCHANGED <<qvars, mvars, svars, wvars>>
    \/ \E j \in JobIds : JobExcept(j) /\ UNCHANGED <<qvars, mvars, svars, wvars>>

SpecManager == InitMgr /\ [][NextManager]_vars

\* main() runs in a thread that is scheduled: a tick that can be taken is
\* taken, and the get on the pending queue returns within its timeout.
SpecMain ==
    /\ InitMgr
    /\ [][NextManager]_vars
    /\ WF_vars(MgrTick /\ UNCHANGED <<qvars, svars, wvars>>)
    /\ WF_vars(MgrGetLaunch /\ UNCHANGED <<svars, wvars>>)

InitFetch == InitQueue /\ InitNewManager /\ InitNoProxySend /\ InitProxyWs

NextFetch ==
    \/ MgrConstruct /\ UNCHANGED <<qvars, jvars, svars, wvars>>

SpecFetch == InitFetch /\ [][NextFetch]_vars

(***************************************************************************)
(* C4: in the tick loop no job is launched while the number of active      *)
(* jobs equals max_concurrent_jobs: every launch happens with fewer than   *)
(* max_concurrent_jobs workers alive and with fewer than                   *)
(* max_concurrent_jobs jobs counted active.                                *)
(***************************************************************************)
C4_NoLaunchAtCapacity ==
    last_launch.outcome = "started" =>
        /\ last_launch.live < MaxConcurrentJobs
        /\ last_launch.active < MaxConcurrentJobs

(***************************************************************************)
(* C5: after _launch_new_job has handled a failed worker creation or start *)
(* of job J popped with priority p, the worker table has no entry for J,   *)
(* the server has received the QUEUED PATCH for J, the pending queue holds *)
(* J at priority p, and the tracker does not track J.                      *)
(***************************************************************************)
C5_RollbackRestoresJob ==
    last_launch.outcome \in {"requeued", "rollback_raised"} =>
        LET J == last_launch.job
        IN  /\ J \notin observer_threads
            /\ server_log[J] # <<>>
            /\ server_log[J][Len(server_log[J])] = "QD"
            /\ Entry(last_launch.priority, J) \in Entries(pending_queue)
            /\ ~is_tracked(Tracker, J)

NextSend ==
    \/ \E p \in Priorities, method \in HttpMethods, file_path \in FilePaths, raises \in BOOLEAN :
         ProxyPushMessage(p, method, file_path, raises) /\ UNCHANGED <<tvars, jvars, mvars, wvars>>
    \/ \E p \in Priorities, method \in HttpMethods, file_path \in FilePaths, raises \in BOOLEAN :
         ProxyPushMessageWithResponse(p, method, file_path, raises)
         /\ UNCHANGED <<tvars, jvars, mvars, wvars>>
    \/ \E id \in pushing : ProxySetEvent(id) /\ UNCHANGED <<tvars, jvars, mvars, wvars>>
    \/ SendWait /\ UNCHANGED <<tvars, jvars, mvars, wvars>>
    \/ SendClear /\ UNCHANGED <<tvars, jvars, mvars, wvars>>
    \/ \E response \in Responses : SendNext(response) /\ UNCHANGED <<tvars, jvars, mvars, wvars>>
    \/ SendDrained /\ UNCHANGED <<tvars, jvars, mvars, wvars>>
    \/ StopProxy /\ UNCHANGED <<tvars, jvars, mvars, wvars>>
    \/ SendExit /\ UNCHANGED <<tvars, jvars, mvars, wvars>>

SpecSend == InitSend /\ [][NextSend]_vars

\* What the request of a well-formed message meets: the transport
\* delivers a 2xx with a JSON body, or it raises.
PlainResponses == {r \in Responses : r.status = "2xx" /\ r.body = "json"}

\* How a status report ends.
HeartbeatOutcomes == {"ok", "failed"}

\* A step of the sender worker, _send_handler.
SenderStep ==
    \/ SendWait
    \/ SendClear
    \/ \E response \in PlainResponses : SendNext(response)
    \/ SendDrained
    \/ SendTimeout
    \/ \E outcome \in HeartbeatOutcomes : SendHeartbeat(outcome)
    \/ SendExit

\* The proxy with its sender worker and the clock of the status reports;
\* the callers push well-formed JSON messages of one priority, which the
\* queue takes.
NextSender ==
    \/ ProxyPushMessage(MaxPriority, "POST", "none", FALSE)
       /\ UNCHANGED <<tvars, jvars, mvars, wvars>>
    \/ \E id \in pushing : ProxySetEvent(id) /\ UNCHANGED <<tvars, jvars, mvars, wvars>>
    \/ SendWait /\ UNCHANGED <<tvars, jvars, mvars, wvars>>
    \/ SendClear /\ UNCHANGED <<tvars, jvars, mvars, wvars>>
    \/ \E response \in PlainResponses : SendNext(response) /\ UNCHANGED <<tvars, jvars, mvars, wvars>>
    \/ SendDrained /\ UNCHANGED <<tvars, jvars, mvars, wvars>>
    \/ SendTimeout /\ UNCHANGED <<tvars, jvars, mvars, wvars>>
    \/ \E outcome \in HeartbeatOutcomes : SendHeartbeat(outcome) /\ UNCHANGED <<tvars, jvars, mvars, wvars>>
    \/ DeadlinePasses /\ UNCHANGED <<tvars, jvars, mvars, wvars>>
    \/ StopProxy /\ UNCHANGED <<tvars, jvars, mvars, wvars>>
    \/ SendExit /\ UNCHANGED <<tvars, jvars, mvars, wvars>>

\* The proxy with its sender worker, within one report interval; the
\* callers push well-formed JSON messages and wait for the responses.
NextRequest ==
    \/ \E p \in Priorities, raises \in BOOLEAN :
         ProxyPushMessageWithResponse(p, "POST", "none", raises)
         /\ UNCHANGED <<tvars, jvars, mvars, wvars>>
    \/ \E id \in pushing : ProxySetEvent(id) /\ UNCHANGED <<tvars, jvars, mvars, wvars>>
    \/ SendWait /\ UNCHANGED <<tvars, jvars, mvars, wvars>>
    \/ SendClear /\ UNCHANGED <<tvars, jvars, mvars, wvars>>
    \/ \E response \in PlainResponses : SendNext(response) /\ UNCHANGED <<tvars, jvars, mvars, wvars>>
    \/ SendDrained /\ UNCHANGED <<tvars, jvars, mvars, wvars>>
    \/ StopProxy /\ UNCHANGED <<tvars, jvars, mvars, wvars>>
    \/ SendExit /\ UNCHANGED <<tvars, jvars, mvars, wvars>>

SpecRequest == InitSend /\ [][NextRequest]_vars

\* The sender worker is a thread of its own and is scheduled; time passes;
\* a caller inside push_message goes on to set the event.
SpecSender ==
    /\ InitSend
    /\ [][NextSender]_vars
    /\ WF_vars(SenderStep /\ UNCHANGED <<tvars, jvars, mvars, wvars>>)
    /\ WF_vars(DeadlinePasses /\ UNCHANGED <<tvars, jvars, mvars, wvars>>)
    /\ WF_vars((\E id \in pushing : ProxySetEvent(id))
               /\ UNCHANGED <<tvars, jvars, mvars, wvars>>)

\* A step of the receiver worker, _receive_handler, outside run_forever.
ReceiverStep ==
    \/ ReceiveLoop
    \/ ReceiveReturned
    \/ ReceiveSlept

\* The proxy with both of its workers, no message pushed and no frame
\* arriving: the clock of the status reports, the connection and the owner
\* who clears running.
NextWorkers ==
    \/ SendTimeout /\ UNCHANGED <<tvars, jvars, mvars, wvars>>
    \/ \E outcome \in HeartbeatOutcomes : SendHeartbeat(outcome) /\ UNCHANGED <<tvars, jvars, mvars, wvars>>
    \/ DeadlinePasses /\ UNCHANGED <<tvars, jvars, mvars, wvars>>
    \/ StopProxy /\ UNCHANGED <<tvars, jvars, mvars, wvars>>
    \/ SendExit /\ UNCHANGED <<tvars, jvars, mvars, wvars>>
    \/ ReceiveLoop /\ UNCHANGED <<qvars, tvars, jvars, mvars, svars>>
    \/ WsOpen /\ UNCHANGED <<qvars, tvars, jvars, mvars, svars>>
    \/ \E raises \in BOOLEAN : WsConnectFailed(raises) /\ UNCHANGED <<qvars, tvars, jvars, mvars, svars>>
    \/ WsDrop /\ UNCHANGED <<qvars, tvars, jvars, mvars, svars>>
    \/ WsClose /\ UNCHANGED <<qvars, tvars, jvars, mvars, svars>>
    \/ ReceiveReturned /\ UNCHANGED <<qvars, tvars, jvars, mvars, svars>>
    \/ ReceiveSlept /\ UNCHANGED <<qvars, tvars, jvars, mvars, svars>>

\* Both workers are threads of their own and are scheduled; time passes; a
\* connection attempt ends, and run_forever is told of a broken connection.
\* Nothing makes the server close a connection.
SpecWorkers ==
    /\ InitSend
    /\ [][NextWorkers]_vars
    /\ WF_vars(SenderStep /\ UNCHANGED <<tvars, jvars, mvars, wvars>>)
    /\ WF_vars(DeadlinePasses /\ UNCHANGED <<tvars, jvars, mvars, wvars>>)
    /\ WF_vars(ReceiverStep /\ UNCHANGED <<qvars, tvars, jvars, mvars, svars>>)
    /\ WF_vars((WsOpen \/ \E raises \in BOOLEAN : WsConnectFailed(raises))
               /\ UNCHANGED <<qvars, tvars, jvars, mvars, svars>>)
    /\ WF_vars(WsClose /\ UNCHANGED <<qvars, tvars, jvars, mvars, svars>>)

\* The messages the sender worker has run _send_message on.
Processed == {id \in 1..Len(sent) : sent[id] \notin {"unsent", "push_failed"}}

(***************************************************************************)
(* C1: once the sender worker has processed a message submitted with       *)
(* push_message_with_response, its future has completed exactly once and   *)
(* its id is absent from the response-future table, whatever the outcome   *)
(* of the send.                                                            *)
(***************************************************************************)
C1_FutureCompletedOnceAndRemoved ==
    \A id \in Processed :
        futures[id].state # "none" =>
            /\ futures[id].completions = 1
            /\ id \notin response_futures

(***************************************************************************)
(* C2: a future registered for a sent message holds a result exactly when  *)
(* the server answered 2xx with a decodable body; after any other outcome  *)
(* of the send it holds an exception.                                      *)
(***************************************************************************)
C2_ResultIffSuccess ==
    \A id \in Processed :
        futures[id].state # "none" =>
            IF sent[id] = "2xx"
            THEN futures[id].state = "result" /\ futures[id].value = "2xx"
            ELSE futures[id].state = "exception"

NextWs ==
    \/ \E t \in MessageTypes : RegisterObserver(t, "h1") /\ UNCHANGED <<qvars, tvars, jvars, mvars, svars>>
    \/ \E t \in MessageTypes : DeregisterObserver(t) /\ UNCHANGED <<qvars, tvars, jvars, mvars, svars>>
    \/ ReceiveLoop /\ UNCHANGED <<qvars, tvars, jvars, mvars, svars>>
    \/ WsOpen /\ UNCHANGED <<qvars, tvars, jvars, mvars, svars>>
    \/ \E raises \in BOOLEAN : WsConnectFailed(raises) /\ UNCHANGED <<qvars, tvars, jvars, mvars, svars>>
    \/ ReceiveReturned /\ UNCHANGED <<qvars, tvars, jvars, mvars, svars>>
    \/ ReceiveSlept /\ UNCHANGED <<qvars, tvars, jvars, mvars, svars>>
    \/ WsDrop /\ UNCHANGED <<qvars, tvars, jvars, mvars, svars>>
    \/ WsClose /\ UNCHANGED <<qvars, tvars, jvars, mvars, svars>>
    \/ HandleWsMessage /\ UNCHANGED <<qvars, tvars, jvars, mvars, svars>>

SpecWs == InitSend /\ [][NextWs]_vars

NextRegistry ==
    \/ \E t \in MessageTypes, h \in Handlers :
         CallRegisterObserver(t, h) /\ UNCHANGED <<qvars, tvars, jvars, mvars, svars>>
    \/ \E t \in MessageTypes :
         CallDeregisterObserver(t) /\ UNCHANGED <<qvars, tvars, jvars, mvars, svars>>

SpecRegistry == InitAll /\ [][NextRegistry]_vars

\* The registry calls of other threads and the receiver worker, whose
\* dispatch of a frame is two steps: the lookup under _observers_lock and
\* the call of the callback after the lock is released.
NextDispatch ==
    \/ \E t \in MessageTypes : RegisterObserver(t, "h1") /\ UNCHANGED <<qvars, tvars, jvars, mvars, svars>>
    \/ \E t \in MessageTypes : DeregisterObserver(t) /\ UNCHANGED <<qvars, tvars, jvars, mvars, svars>>
    \/ ReceiveLoop /\ UNCHANGED <<qvars, tvars, jvars, mvars, svars>>
    \/ WsOpen /\ UNCHANGED <<qvars, tvars, jvars, mvars, svars>>
    \/ \E t \in MessageTypes : WsLookup(t) /\ UNCHANGED <<qvars, tvars, jvars, mvars, svars>>
    \/ \E behaviour \in Behaviours : WsInvoke(behaviour) /\ UNCHANGED <<qvars, tvars, jvars, mvars, svars>>

SpecDispatch == InitSend /\ [][NextDispatch]_vars

\* The handled frames that carry an id and a type.
ValidFrames == {n \in 1..Len(ws_frames) : ws_frames[n].frame.id # NoId
                                          /\ ws_frames[n].frame.type # NoType}

\* The replies sent for the n-th frame.
RepliesTo(n) == {k \in 1..Len(ws_sent) : ws_sent[k].frame = n}

C7_NeverInBothMaps ==
    \A id \in ever_added : ~(is_active(Tracker, id) /\ is_completed(Tracker, id))


\* The messages of a list, as a set.
Residents(q) == {q[i] : i \in 1..Len(q)}

\* The last call was a get_next_message that returned a message.
Popped == q_op = "pop" /\ q_ret # NoMessage

(***************************************************************************)
(* C9 as stated: get_next_message returns a message whose priority value   *)
(* is less than or equal to that of every other message resident in the    *)
(* queue.                                                                  *)
(***************************************************************************)
C9_PopReturnsSmallest ==
    Popped => \A m \in Residents(q_pre) : q_ret.priority <= m.priority

(***************************************************************************)
(* C9 amended: on a non-empty queue get_next_message removes and returns   *)
(* a resident message whose priority value is greater than or equal to     *)
(* that of every other message that was resident.                          *)
(***************************************************************************)
C9_PopReturnsLargest ==
    /\ (q_op = "pop" /\ q_pre # <<>>) => q_ret # NoMessage
    /\ Popped =>
         /\ q_ret \in Residents(q_pre)
         /\ Residents(queue) = Residents(q_pre) \ {q_ret}
         /\ \A m \in Residents(q_pre) : q_ret.priority >= m.priority

C9_Witness ==
    /\ Popped
    /\ Len(q_pre) >= 3
    /\ \E m \in Residents(q_pre) : m.priority < q_ret.priority
    /\ q_pre[1].priority < q_pre[Len(q_pre)].priority

(***************************************************************************)
(* C10: successive get_next_message calls after a set of pushes return the *)
(* messages from the largest priority value down to the smallest: the      *)
(* priorities returned since the last push never increase, and the last    *)
(* one returned is not below any message still resident.                   *)
(***************************************************************************)
C10_DrainLargestFirst ==
    /\ \A i \in 1..Len(drained) : \A k \in 1..Len(drained) :
         i < k => drained[i] >= drained[k]
    /\ \A i \in 1..Len(drained) : \A m \in Residents(queue) :
         drained[i] >= m.priority

C10_Witness ==
    /\ Len(drained) >= 3
    /\ drained[1] > drained[3]
    /\ queue # <<>>

(***************************************************************************)
(* C11: among resident messages of equal priority get_next_message returns *)
(* the one pushed first (message ids grow in push order).                  *)
(***************************************************************************)
C11_FifoAmongPeers ==
    Popped => \A m \in Residents(q_pre) :
                 m.priority = q_ret.priority => q_ret.msg_id <= m.msg_id

\* The statuses launch() has applied to job j, in order.
AppliedStatuses(j) == [i \in 1..Len(applied[j]) |-> applied[j][i].status]

\* The statuses applied when the step named raises.
StatusesUpTo(step) ==
    CASE step = "setup" -> <<"PR">>
      [] step = "fetch" -> <<"PR", "FR">>
      [] step = "run" -> <<"PR", "FR", "RN">>
      [] OTHER -> <<"PR", "FR", "RN", "CU", "UR">>

(***************************************************************************)
(* C12: an exception raised in a step of launch() is caught in launch():   *)
(* no later step is executed, the only status applied after the failing    *)
(* step is FAILED_EXCEPTION, and launch() returns with the job's status    *)
(* FAILED_EXCEPTION.                                                       *)
(***************************************************************************)
C12_LaunchCatchesAll ==
    \A j \in JobIds :
        job_failed[j] # "none" =>
            /\ job_pc[j] \in {"except", "done"}
            /\ job_pc[j] = "except" => AppliedStatuses(j) = StatusesUpTo(job_failed[j])
            /\ job_pc[j] = "done" =>
                 /\ AppliedStatuses(j) = StatusesUpTo(job_failed[j]) \o <<"FE">>
                 /\ job_status[JobRec(j)] = "FE"

\* launch() has returned after the log upload raised.
C12_Witness ==
    \E j \in JobIds : job_failed[j] = "upload" /\ job_pc[j] = "done"

\* The place of a status on the path of a job; the terminal ones come last.
StatusRank(status) ==
    CASE status = "QD" -> 0
      [] status = "PR" -> 1
      [] status = "FR" -> 2
      [] status = "RN" -> 3
      [] status = "CU" -> 4
      [] status = "UR" -> 5
      [] OTHER -> 6

(***************************************************************************)
(* C13: the statuses an executor applies go forward along QUEUED,          *)
(* PREPARING, FETCHING_RESOURCES, RUNNING, CLEANING_UP, UPLOADING_RESULTS,  *)
(* SUCCEEDED, possibly cut short by one FAILED_* status: every status      *)
(* applied lies further along than all before it, and none follows a       *)
(* terminal status.                                                        *)
(***************************************************************************)
C13_StatusesGoForward ==
    \A j \in JobIds :
        /\ \A i \in 1..Len(applied[j]) : StatusRank(applied[j][i].status) > StatusRank("QD")
        /\ \A i \in 1..Len(applied[j]) : \A k \in 1..Len(applied[j]) :
             i < k => /\ StatusRank(applied[j][i].status) < StatusRank(applied[j][k].status)
                      /\ applied[j][i].status \notin CompleteStatuses

\* A job went the whole path, and one was cut short while running.
C13_Witness ==
    \E j \in JobIds :
        /\ job_pc[j] = "done"
        /\ AppliedStatuses(j) \in {<<"PR", "FR", "RN", "CU", "UR", "SD">>,
                                   <<"PR", "FR", "RN", "FE">>}

(***************************************************************************)
(* C14: when the subprocess has exited and clean-up has completed, the     *)
(* exit code the server holds is the exit code of the subprocess, and the  *)
(* final status is SUCCEEDED if that code is 0 and FAILED otherwise.       *)
(***************************************************************************)
C14_ExitCodeReported ==
    \A j \in JobIds :
        (job_pc[j] = "done" /\ job_failed[j] = "none") =>
            /\ job_result[j] \in ExitCodes
            /\ server_exit[j] = job_result[j]
            /\ job_status[JobRec(j)] = (IF job_result[j] = 0 THEN "SD" ELSE "FD")
            /\ applied[j][Len(applied[j])].status = job_status[JobRec(j)]

\* Clean-up has completed for a subprocess that exited with code 2.
C14_Witness ==
    \E j \in JobIds :
        /\ job_pc[j] = "done"
        /\ job_failed[j] = "none"
        /\ job_result[j] = 2
        /\ server_exit[j] = 2
        /\ job_status[JobRec(j)] = "FD"

\* The jobs that failed: a step raised, or the subprocess exited non-zero.
FailedJobs ==
    {j \in JobIds : job_pc[j] = "done"
                    /\ (job_failed[j] # "none" \/ job_result[j] \notin {0, NoExit})}

(***************************************************************************)
(* C15: when launch() has returned for a job that failed, the last status  *)
(* the server received for it is a FAILED_* status, and the tracker holds  *)
(* the job in the completed map and not in the active map, with a FAILED_* *)
(* status.                                                                 *)
(***************************************************************************)
C15_FailureRecorded ==
    \A j \in FailedJobs :
        /\ server_log[j] # <<>>
        /\ server_log[j][Len(server_log[j])] \in {"FD", "FE"}
        /\ is_completed(Tracker, j)
        /\ ~is_active(Tracker, j)
        /\ job_status[completed_jobs[j]] \in {"FD", "FE"}

\* The status stored in the record the tracker holds for a tracked id.
StoredStatus(T, id) ==
    IF is_active(T, id) THEN T.status[T.active[id]] ELSE T.status[T.completed[id]]

(***************************************************************************)
(* C16: after update_job_status(id, s) has returned normally for a tracked *)
(* id, the stored status of the record is s and the record is in exactly   *)
(* the map of the phase of s.                                              *)
(***************************************************************************)
C16_UpdateStoresStatus ==
    (t_call.op = "update" /\ ~t_call.raised) =>
        /\ is_tracked(Tracker, t_call.id)
        /\ StoredStatus(Tracker, t_call.id) = t_call.status
        /\ is_active(Tracker, t_call.id)
             <=> job_status_to_activity_status(t_call.status) = "ACTIVE"
        /\ is_completed(Tracker, t_call.id)
             <=> job_status_to_activity_status(t_call.status) = "COMPLETE"

(***************************************************************************)
(* C17: add_job of a job whose status is PENDING and update_job_status of  *)
(* an id that is in neither map fail with an error, and a tracker call     *)
(* that fails leaves both maps and the stored records as they were.        *)
(***************************************************************************)
C17_RejectedLeavesMaps ==
    [][/\ (t_call'.op = "add" /\ t_call'.status \in PendingStatuses) => t_call'.raised
       /\ (t_call'.op = "update" /\ ~is_tracked(Tracker, t_call'.id)) => t_call'.raised
       /\ t_call'.raised => /\ active_jobs' = active_jobs
                            /\ completed_jobs' = completed_jobs
                            /\ job_status' = job_status]_vars

\* A QUEUED job was rejected by add_job while another record was tracked.
C17_Witness ==
    /\ t_call.op = "add"
    /\ t_call.raised
    /\ t_call.status = "QD"
    /\ active_jobs # EmptyDict

\* The registry as the i-th registry call left it.
RegPost(i) == IF i < Len(reg_log) THEN reg_log[i + 1].pre ELSE observers

(***************************************************************************)
(* C18: the registry holds at most one handler per type: register_observer *)
(* raises exactly for a type that has a handler and then leaves the        *)
(* registry unchanged, and no register_observer call replaces the handler  *)
(* of a type, in any sequence of register and deregister calls.            *)
(***************************************************************************)
C18_OneHandlerPerType ==
    \A i \in 1..Len(reg_log) :
        reg_log[i].op = "register" =>
            /\ reg_log[i].raised <=> reg_log[i].type \in DOMAIN reg_log[i].pre
            /\ reg_log[i].raised => RegPost(i) = reg_log[i].pre
            /\ \A t \in DOMAIN reg_log[i].pre :
                 t \in DOMAIN RegPost(i) /\ RegPost(i)[t] = reg_log[i].pre[t]

\* A second handler was refused for a type that has another one.
C18_Witness ==
    \E i \in 1..Len(reg_log) :
        /\ reg_log[i].op = "register"
        /\ reg_log[i].raised
        /\ reg_log[i].pre[reg_log[i].type] # reg_log[i].handler

(***************************************************************************)
(* C19: registering an observer for a type that has no handler and then    *)
(* deregistering that type gives back the registry as it was; a            *)
(* deregister_observer of a type that has no handler raises and changes    *)
(* nothing.                                                                *)
(***************************************************************************)
C19_RegisterDeregisterRestores ==
    \A i \in 1..Len(reg_log) :
        /\ (/\ i < Len(reg_log)
            /\ reg_log[i].op = "register"
            /\ ~reg_log[i].raised
            /\ reg_log[i + 1].op = "deregister"
            /\ reg_log[i + 1].type = reg_log[i].type)
           => (~reg_log[i + 1].raised /\ RegPost(i + 1) = reg_log[i].pre)
        /\ (reg_log[i].op = "deregister" /\ reg_log[i].type \notin DOMAIN reg_log[i].pre)
           => (reg_log[i].raised /\ RegPost(i) = reg_log[i].pre)

\* A type was registered next to another one and deregistered again.
C19_Witness ==
    \E i \in 1..Len(reg_log) :
        /\ i < Len(reg_log)
        /\ reg_log[i].op = "register"
        /\ ~reg_log[i].raised
        /\ reg_log[i].pre # EmptyDict
        /\ reg_log[i + 1].op = "deregister"
        /\ reg_log[i + 1].type = reg_log[i].type

(***************************************************************************)
(* C20: a frame without an id is dropped: handling it sends no reply,      *)
(* invokes no handler and leaves the observer registry unchanged, also     *)
(* when a handler is registered for its type.                              *)
(***************************************************************************)
C20_NoIdFrameDropped ==
    [][(/\ Len(ws_frames') = Len(ws_frames) + 1
        /\ ws_frames'[Len(ws_frames')].frame.id = NoId)
       => /\ ws_sent' = ws_sent
          /\ observers' = observers
          /\ ~ws_frames'[Len(ws_frames')].invoked]_vars

\* A frame without an id was handled, of a type that has a handler, on an
\* open connection.
C20_Witness ==
    \E n \in 1..Len(ws_frames) :
        /\ ws_frames[n].frame.id = NoId
        /\ ws_frames[n].registered
        /\ ws_frames[n].open
        /\ RepliesTo(n) = {}

\* The handled frames that carry an id and cannot be handled: the type is
\* missing, the type has no handler, or the handler raised.
UnhandledFrames ==
    {n \in 1..Len(ws_frames) :
        /\ ws_frames[n].frame.id # NoId
        /\ \/ ws_frames[n].frame.type = NoType
           \/ ~ws_frames[n].registered
           \/ ws_frames[n].behaviour = "raises"}

(***************************************************************************)
(* C21: for a frame that has an id and cannot be handled (type missing, no *)
(* handler for the type, or the handler raises) the reply is one error     *)
(* frame with response_to equal to the frame's id and a data entry that    *)
(* names the failure, sent if the connection carries it; for a missing or  *)
(* an unknown type no handler is invoked.                                  *)
(***************************************************************************)
C21_ErrorReply ==
    \A n \in UnhandledFrames :
        /\ \A k \in RepliesTo(n) :
             /\ ws_sent[k].type = "error"
             /\ ws_sent[k].response_to = ws_frames[n].frame.id
             /\ ws_sent[k].data \in ErrorData
             /\ ws_frames[n].frame.type = NoType => ws_sent[k].data = "no_type"
             /\ (ws_frames[n].frame.type # NoType /\ ~ws_frames[n].registered)
                => ws_sent[k].data = "unknown_type"
        /\ Cardinality(RepliesTo(n)) <= 1
        /\ ws_frames[n].open => RepliesTo(n) # {}
        /\ (ws_frames[n].frame.type = NoType \/ ~ws_frames[n].registered)
           => ~ws_frames[n].invoked

\* A frame of a type without a handler was answered with an error frame,
\* while another type had a handler.
C21_Witness ==
    \E n \in UnhandledFrames :
        /\ ws_frames[n].frame.type # NoType
        /\ ~ws_frames[n].registered
        /\ observers # EmptyDict
        /\ \E k \in RepliesTo(n) : ws_sent[k].type = "error"

(***************************************************************************)
(* C22: when a registered handler returns normally for a frame with id i,  *)
(* the reply is the handler's return value with response_to set to i, or   *)
(* the synthetic success frame with response_to i if the handler returned  *)
(* nothing, also when the return value has an 'id' entry of its own.       *)
(***************************************************************************)
C22_ReplyCarriesResponseTo ==
    \A n \in 1..Len(ws_frames) :
        (ws_frames[n].invoked /\ ws_frames[n].behaviour \in {"dict", "dict_with_id", "nothing"})
        => \A k \in RepliesTo(n) :
             /\ ws_sent[k].response_to = ws_frames[n].frame.id
             /\ ws_sent[k].type = IF ws_frames[n].behaviour = "nothing"
                                  THEN "success" ELSE "handler"

C24_FailedPushLeavesTable ==
    [][(Len(sent') = Len(sent) + 1 /\ sent'[Len(sent')] = "push_failed")
       => /\ response_futures' = response_futures
          /\ Len(sent') \notin response_futures']_vars

\* A push_message_with_response failed while the future of another message
\* was waiting in the table.
C24_Witness ==
    \E id \in 1..Len(sent) :
        /\ sent[id] = "push_failed"
        /\ response_futures # {}
        /\ id \notin response_futures

\* The ids of the messages pushed, returned and resident so far.
PushedIds == 1..(next_msg_id - 1)
PoppedIds == {popped[i] : i \in 1..Len(popped)}
ResidentIds == {queue[i].msg_id : i \in 1..Len(queue)}

(***************************************************************************)
(* C25: under any interleaving of push_message and get_next_message calls  *)
(* every pushed message is returned by at most one get_next_message call   *)
(* and is resident until then (none lost, none returned twice), and the    *)
(* queue is empty once as many messages were returned as were pushed.      *)
(***************************************************************************)
C25_EachMessageOnce ==
    /\ \A i, k \in 1..Len(popped) : i # k => popped[i] # popped[k]
    /\ PoppedIds \cup ResidentIds = PushedIds
    /\ PoppedIds \cap ResidentIds = {}
    /\ Len(popped) + Len(queue) = next_msg_id - 1
    /\ Len(popped) = next_msg_id - 1 => is_empty(queue)

\* Pushes and pops were interleaved: all messages pushed were returned, a
\* later one before an earlier one and an earlier one before a later one.
C25_Witness ==
    /\ Len(popped) = next_msg_id - 1
    /\ is_empty(queue)
    /\ \E i, k \in 1..Len(popped) : i < k /\ popped[i] > popped[k]
    /\ \E i, k \in 1..Len(popped) : i < k /\ popped[i] < popped[k]

(***************************************************************************)
(* C26: get_next_message on an empty queue returns None at once, without   *)
(* waiting for a message, and leaves the queue empty.                      *)
(***************************************************************************)
C26_EmptyPopReturnsNone ==
    /\ (q_op = "pop" /\ q_pre = <<>>) => (q_ret = NoMessage /\ is_empty(queue))
    /\ is_empty(queue) => ENABLED QPop

\* An empty pop after the queue had held messages.
C26_Witness ==
    /\ q_op = "pop"
    /\ q_pre = <<>>
    /\ q_ret = NoMessage
    /\ popped # <<>>

(***************************************************************************)
(* C27: the construction of the Job Manager succeeds for any job list the  *)
(* server returns, also one with several jobs of the same priority, and    *)
(* after it every returned job of a PENDING status is in the pending queue *)
(* under its priority, every other returned job is in the tracker in the   *)
(* map of its phase, and no job is both in the queue and in the tracker.   *)
(***************************************************************************)
C27_FetchedJobsPlaced ==
    mgr_pc # "new" =>
        /\ mgr_pc = "tick"
        /\ \A id \in DOMAIN job_priority :
             LET phase == job_status_to_activity_status(job_status[JobRec(id)])
                 queued == Entry(job_priority[id], id) \in Entries(pending_queue)
             IN  /\ phase = "PENDING" => (queued /\ ~is_tracked(Tracker, id))
                 /\ phase = "ACTIVE" =>
                      (is_active(Tracker, id) /\ ~is_completed(Tracker, id) /\ ~queued)
                 /\ phase = "COMPLETE" =>
                      (is_completed(Tracker, id) /\ ~is_active(Tracker, id) /\ ~queued)

(***************************************************************************)
(* C28: main() terminates: the loop counter goes up by one on every tick,  *)
(* also on a tick whose body raised; when it reaches max_main_loop_count   *)
(* the running flag is cleared and the loop is left, after exactly that    *)
(* many ticks.                                                             *)
(***************************************************************************)
C28_MainTerminates ==
    /\ <>(mgr_pc = "exit")
    /\ [](mgr_pc = "exit" <=> loop_count = MaxMainLoopCount)
    /\ [](mgr_pc = "exit" <=> ~is_running)
    /\ [][/\ loop_count' \in {loop_count, loop_count + 1}
          /\ (mgr_pc = "get" /\ mgr_pc' # "get") => loop_count' = loop_count + 1
          /\ last_launch' # last_launch => loop_count' = loop_count + 1]_vars

\* The loop was left after max_main_loop_count ticks, the last of which
\* raised in its body.
C28_Witness ==
    /\ mgr_pc = "exit"
    /\ loop_count = MaxMainLoopCount
    /\ last_launch.tick = MaxMainLoopCount - 1
    /\ last_launch.outcome \in {"get_raised", "rollback_raised"}

\* How the message of an id stands: not pushed ("none"), queued ("unsent"),
\* refused by the queue, or the outcome of its _send_message.
SentState(id) == IF id \in 1..Len(sent) THEN sent[id] ELSE "none"

(***************************************************************************)
(* C29: while the proxy is running, every message queued by push_message   *)
(* is eventually handed to _send_message by the sender worker, and no      *)
(* message is handed over twice, however the pushes interleave with the    *)
(* worker's wait, clear and drain steps; an error raised by the sending of *)
(* one message does not end the worker, which goes on to the next message. *)
(***************************************************************************)
C29_EveryMessageSent ==
    /\ \A id \in 1..MaxSendMsgs :
         (SentState(id) = "unsent") ~> (SentState(id) # "unsent" \/ ~running)
    /\ [](\A i, k \in 1..Len(popped) : i # k => popped[i] # popped[k])
    /\ [](PoppedIds = Processed)
    /\ [](send_pc = "exit" => ~running)

\* The sending of one message raised and a message taken after it was sent.
C29_Witness ==
    /\ running
    /\ \E i, k \in 1..Len(popped) :
         /\ i < k
         /\ sent[popped[i]] = "RequestException"
         /\ sent[popped[k]] = "2xx"

C31_WorkersTerminate ==
    (~running) ~> (send_pc = "exit" /\ recv_pc = "exit")

(***************************************************************************)
(* C32: while running is set the receiver worker never returns; when       *)
(* run_forever has ended, by a disconnect or by an error, the worker goes   *)
(* through its 5 s sleep before it is back at the head of its loop, a new   *)
(* run_forever starts only from the head of the loop, and a new             *)
(* run_forever does start unless running is cleared.                        *)
(***************************************************************************)
C32_ReconnectAfterSleep ==
    /\ [](recv_pc = "exit" => ~running)
    /\ [][(recv_pc = "returned" /\ running /\ recv_pc' # recv_pc) => recv_pc' = "sleep"]_vars
    /\ [][(recv_pc # "loop" /\ recv_pc' = "loop" /\ running') => recv_pc = "sleep"]_vars
    /\ [][(recv_pc # "run" /\ recv_pc' = "run") => (recv_pc = "loop" /\ running)]_vars
    /\ (recv_pc \in {"returned", "sleep"}) ~> (recv_pc = "run" \/ ~running)

\* A disconnect has been followed by the sleep and by a new run_forever,
\* which has connected.
C32_Witness ==
    /\ running
    /\ recv_slept
    /\ recv_pc = "run"
    /\ ws_connected

(***************************************************************************)
(* C33: no _update_status call raises to the phase that made it; it logs   *)
(* an error exactly when a step of it failed; a call in which nothing      *)
(* failed has set the local record, PATCHed the server and then called     *)
(* update_job_status if the id was tracked and add_job if it was not,      *)
(* which leaves the job in the tracker map of the new status.              *)
(***************************************************************************)
C33_StatusHelperIsSink ==
    \A j \in JobIds : \A i \in 1..Len(applied[j]) :
        LET a == applied[j][i]
            tracked_before == \E k \in 1..(i - 1) : ~applied[j][k].logged
        IN  /\ ~a.raised
            /\ a.logged <=> (~a.patched \/ a.call = "none")
            /\ ~a.logged =>
                  /\ a.patched
                  /\ a.call = (IF tracked_before THEN "update_job_status" ELSE "add_job")
            /\ i = Len(applied[j]) =>
                  /\ job_status[JobRec(j)] = a.status
                  /\ ~a.logged =>
                        /\ server_log[j] # <<>>
                        /\ server_log[j][Len(server_log[j])] = a.status
                        /\ IF a.status \in CompleteStatuses
                           THEN is_completed(Tracker, j) /\ ~is_active(Tracker, j)
                           ELSE is_active(Tracker, j) /\ ~is_completed(Tracker, j)

\* launch() has returned without an exception in any phase although one of
\* its status PATCHes failed, and both tracker calls were made.
C33_Witness ==
    \E j \in JobIds :
        /\ job_pc[j] = "done"
        /\ job_failed[j] = "none"
        /\ \E i \in 1..Len(applied[j]) : applied[j][i].logged /\ ~applied[j][i].patched
        /\ \E i \in 1..Len(applied[j]) : applied[j][i].call = "add_job"
        /\ \E i \in 1..Len(applied[j]) : applied[j][i].call = "update_job_status"

\* Whether s is t with some of its elements left out, the rest in order.
RECURSIVE IsSubSeq(_, _)
IsSubSeq(s, t) ==
    IF s = <<>> THEN TRUE
    ELSE IF t = <<>> THEN FALSE
    ELSE IF Head(s) = Head(t) THEN IsSubSeq(Tail(s), Tail(t))
    ELSE IsSubSeq(s, Tail(t))

C35_FailedResetLogged ==
    (/\ last_launch.outcome \in {"requeued", "reset_logged", "rollback_raised"}
     /\ ~last_launch.patched)
        => last_launch.outcome = "reset_logged"

(***************************************************************************)
(* C36: at every moment the number of job workers that were started and    *)
(* whose launch() has not returned is at most max_concurrent_jobs.         *)
(***************************************************************************)
C36_LiveWorkersBounded ==
    Cardinality({id \in JobIds : is_alive(id)}) <= MaxConcurrentJobs

(***************************************************************************)
(* C37: every executor the manager has started holds the manager's         *)
(* FileManager, and a manager-launched job whose launch() has returned     *)
(* with every status PATCH gone through has SUCCEEDED as its last status   *)
(* unless its subprocess failed.                                           *)
(***************************************************************************)
C37_ExecutorGetsFileManager ==
    \A j \in JobIds :
        /\ job_pc[j] # "idle" => job_fm[j] = "FileManager"
        /\ (/\ job_pc[j] = "done"
            /\ job_result[j] \in {0, NoExit}
            /\ \A i \in 1..Len(applied[j]) : applied[j][i].patched)
               => /\ applied[j] # <<>>
                  /\ applied[j][Len(applied[j])].status = "SD"

(***************************************************************************)
(* C38: when the launch handling of a tick has finished for the job it     *)
(* took from the pending queue, the job is in the worker table with a      *)
(* started worker or it is back in the pending queue.                      *)
(***************************************************************************)
C38_NoJobLost ==
    (/\ last_launch.outcome \in {"started", "started_then_failed", "requeued",
                                 "reset_logged", "rollback_raised"}
     /\ last_launch.tick + 1 = loop_count
     /\ mgr_pc \in {"tick", "exit"})
        => \/ /\ last_launch.job \in observer_threads
              /\ job_pc[last_launch.job] # "idle"
           \/ \E i \in 1..Len(pending_queue) : pending_queue[i].job = last_launch.job

(***************************************************************************)
(* C39: once every started job worker has returned, the capacity the       *)
(* tracker's active count stands for has been released: with a job         *)
(* pending, the active count is below max_concurrent_jobs, so that the     *)
(* next tick launches a pending job.                                       *)
(***************************************************************************)
C39_CapacityReleased ==
    (/\ \A j \in JobIds : ~is_alive(j)
     /\ pending_queue # <<>>)
        => active_count(Tracker) < MaxConcurrentJobs

(***************************************************************************)
(* C40: a callback is called for a frame only while the frame's type is in *)
(* the registry: once deregister_observer(type) has returned, the callback *)
(* it removed is not called, wherever the receiver worker stood in the     *)
(* dispatch of a frame of that type.                                       *)
(***************************************************************************)
C40_RemovedHandlerNotInvoked ==
    \A n \in 1..Len(ws_frames) : ws_frames[n].invoked => ws_frames[n].registered

=============================================================================
